---- MODULE Spec2Model ----
(***************************************************************************)
(* Drag-Doc backend: the session ingestion-to-report pipeline.             *)
(*   backend/utils/cleaner.py         unzipAndClean, stripNoise            *)
(*   backend/utils/create_summary.py  generateWithGemini, createSummary    *)
(*   backend/main.py                  the request handlers and registry    *)
(*   backend/utils/pdf_generator.py   the tree analysis and the PDF story  *)
(* Specifications:                                                         *)
(*   SpecNoise      unzipAndClean over a bounded universe of archives      *)
(*   SpecRetry      one generateWithGemini call under its retry decorator  *)
(*   SpecQuiz       the two quiz parsers over bounded raw responses        *)
(*   SpecSummary    createSummary over a docstore, document by document    *)
(*   SpecAnalyzer   extract_api_endpoints and analyze_tech_stack on a tree *)
(*   SpecAssembler  generate_enhanced_pdf, section by section              *)
(*   SpecSplit      chunkDocs on one file's text                           *)
(*   SpecDeps       analyze_dependencies on a tree of manifests            *)
(*   SpecDetect     analyze_project_structure on files that may not read   *)
(*   Spec           the server: registry, directories, interleaved requests*)
(*   SpecLive       the server with its report steps scheduled fairly      *)
(***************************************************************************)
EXTENDS Integers, Sequences, FiniteSets, TLC

VARIABLES
    \* ---- cleaner.py (SpecNoise)
    extractTo,      \* the target path: [exists, entries]
    normArchive,    \* the archive of the last unzipAndClean call
    normResult,     \* "none" | "ok" | "error": how the last call ended
    normRuns,       \* calls made so far
    normRepeat,     \* the last call was given the archive of the call before
    \* ---- create_summary.py generateWithGemini (SpecRetry)
    retryPc,        \* "attempt" | "wait" | "returned" | "raised"
    attemptNumber,  \* tenacity's retry_state.attempt_number
    attemptsMade,   \* calls of the wrapped function so far
    waitsMade,      \* sleeps between attempts so far
    totalWait,      \* seconds slept so far
    \* ---- main.py quiz parsing (SpecQuiz)
    rawResponse,    \* the text generateWithGemini returned, as tokens
    quizPc,         \* "raw" | "report" | "mcqs": which parser has run
    quizMcqs,       \* the parser's result, a JSON value
    \* ---- create_summary.py createSummary (SpecSummary)
    sumDocs,        \* db.docstore._dict.values(): the stored documents
    sumState,       \* the loop's state: position, summaries, outcomes
    sumPc,          \* "loop" | "returned" | "raised"
    \* ---- main.py (Spec)
    session_dbs,    \* the registry: session id -> the documents of its store
    uploadDirs,     \* data/<id>: session id -> the files in it
    extractDirs,    \* extracted/<id>: session id -> the tree in it
    uuids,          \* session ids handed out so far
    reqs,           \* the requests: slot -> the handler's position and locals
    \* ---- pdf_generator.py analysis (SpecAnalyzer)
    anaTree,        \* the files below extract_dir, with what they hold
    endpoints,      \* extract_api_endpoints: [done, list]
    tech_stack,     \* analyze_tech_stack: [done, languages, frameworks]
    \* ---- pdf_generator.py generate_enhanced_pdf (SpecAssembler)
    asmIn,          \* the arguments: logo, diagram, analysis, quiz size
    story,          \* the flowables appended so far
    asmPc,          \* the section to come, or "built" | "raised"
    \* ---- main.py chunkDocs (SpecSplit)
    splitText,      \* one file's text: the lengths of its words, a space between
    splitChunks,    \* the chunks of it: [start, len], offsets from 0
    splitPc,        \* "text" | "chunked"
    \* ---- pdf_generator.py detectors on files that may not be readable
    detTree,        \* the files below extract_dir: [path, read, lines, decls]
    dependencies,   \* analyze_dependencies: [done, map]
    analysis        \* analyze_project_structure: [done, raised, facts]

noiseVars == <<extractTo, normArchive, normResult, normRuns, normRepeat>>
retryVars == <<retryPc, attemptNumber, attemptsMade, waitsMade, totalWait>>
quizVars == <<rawResponse, quizPc, quizMcqs>>
sumVars == <<sumDocs, sumState, sumPc>>
serverVars == <<session_dbs, uploadDirs, extractDirs, uuids, reqs>>

analysisVars == <<anaTree, endpoints, tech_stack>>
storyVars == <<asmIn, story, asmPc>>
splitVars == <<splitText, splitChunks, splitPc>>
detectVars == <<detTree, dependencies, analysis>>
restVars == <<analysisVars, storyVars, splitVars, detectVars>>

vars == <<noiseVars, retryVars, quizVars, sumVars, serverVars, restVars>>

(***************************************************************************)
(* Bounds of the model.                                                    *)
(***************************************************************************)
MaxArchiveFiles == 2   \* members of one archive
MaxRuns == 2           \* unzipAndClean calls on one target
MaxItems == 2          \* freely chosen items at the head of a quiz response
MaxDocs == 3           \* documents of a docstore handed to createSummary
MaxSessions == 2       \* uploads that are given a session id
MaxRequests == 3       \* requests the clients send
MaxDecls == 2          \* route declarations in the files of one tree
MaxWords == 3          \* words of the text handed to the splitter
MaxLines == 2          \* lines of the manifests of one tree, taken together

(***************************************************************************)
(* cleaner.py: the three noise lists, verbatim.                            *)
(***************************************************************************)
noiseDirs ==
    { "node_modules", "__pycache__", ".venv", "env", "venv", ".git", ".next",
      "build", "dist", "out", "target", ".gradle", ".terraform", ".scannerwork",
      ".expo", ".parcel-cache", ".idea", ".vscode", ".pytest_cache", ".mypy_cache",
      ".cache", ".github", ".circleci", ".husky", "coverage", "__tests__", "tests",
      "logs", "log", ".history", "ui" }

noiseFiles ==
    { ".gitignore", ".dockerignore", ".env", ".env.local", ".editorconfig", "README.md",
      "README", "LICENSE", "Makefile", "Dockerfile", "docker-compose.yml", "yarn.lock",
      "package.json", "package-lock.json", "pnpm-lock.yaml", "poetry.lock", "Pipfile.lock",
      "requirements.txt", "tsconfig.json", "jsconfig.json", "babel.config.js",
      "webpack.config.js", "vite.config.js", "CMakeLists.txt", "setup.py", "setup.cfg",
      "pyproject.toml", ".prettierrc", ".eslintrc", ".stylelintrc", "Procfile",
      ".ngrok.yml", ".env.example" }

extensionsToDelete ==
    { ".png", ".jpeg", ".jpg", ".gif", ".svg", ".ico", ".webp",
      ".mp4", ".mp3", ".wav", ".ogg", ".flac", ".aac", ".m4a", ".m4v", ".mov",
      ".avi", ".wmv", ".webm", ".mkv", ".flv", ".vob", ".ogv", ".m3u8", ".ts",
      ".log", ".lock", ".tmp", ".bak", ".class", ".o", ".a", ".jar",
      ".exe", ".dll", ".so", ".dylib", ".iml", ".ipynb_checkpoints", ".csv", ".pptx",
      ".txt", ".docx", ".pdf" }

(***************************************************************************)
(* File and directory names.  TLC cannot index into a string, so the three *)
(* string operations stripNoise applies (str.lower, str.startswith('.'),   *)
(* str.endswith(ext)) are tabulated over the names the archives use.       *)
(***************************************************************************)
\* str.lower()
Lower(f) ==
    CASE f = "README.md" -> "readme.md"
      [] f = "Makefile"  -> "makefile"
      [] f = "LICENSE"   -> "license"
      [] f = "logo.PNG"  -> "logo.png"
      [] f = "Pipfile"   -> "pipfile"
      [] OTHER           -> f

\* s.startswith('.'), for s a lower-cased file name
StartsWithDot(s) == s \in { ".env", ".hidden" }

\* The part of s from its last dot on ("" when s has no dot).  Every entry of
\* extensionsToDelete is one dot followed by dot-free characters, so
\* s.endswith(ext) is DotSuffix(s) = ext.
DotSuffix(s) ==
    CASE s \in { "main.py", "util.py", "keep.py", "old.py" } -> ".py"
      [] s \in { "app.py", "views.py" }                      -> ".py"
      [] s \in { "dep.js", "index.js" }                      -> ".js"
      [] s \in { "README.md", "readme.md" }                  -> ".md"
      [] s = ".env"                                          -> ".env"
      [] s = ".hidden"                                       -> ".hidden"
      [] s = "logo.PNG"                                      -> ".PNG"
      [] s = "logo.png"                                      -> ".png"
      [] s \in { "notes.txt", "requirements.txt" }           -> ".txt"
      [] s = "package.json"                                  -> ".json"
      [] s = "pyproject.toml"                                -> ".toml"
      [] OTHER                                               -> ""

EndsWith(s, ext) == DotSuffix(s) = ext

(***************************************************************************)
(* A tree is a set of entries [path, kind]; a path is the sequence of      *)
(* names below the target directory.  NoDir: nothing is at the target.     *)
(***************************************************************************)
NoDir == [exists |-> FALSE, entries |-> {}]
DirOf(t) == [exists |-> TRUE, entries |-> t]

File(p) == [path |-> p, kind |-> "file"]
Dir(p) == [path |-> p, kind |-> "dir"]

Name(e) == e.path[Len(e.path)]
Parent(e) == SubSeq(e.path, 1, Len(e.path) - 1)

IsPrefix(p, q) == Len(p) <= Len(q) /\ SubSeq(q, 1, Len(p)) = p

\* The members an archive may hold.
CandidateMembers ==
    { File(<<"main.py">>), File(<<"README.md">>), File(<<".env">>),
      File(<<"logo.PNG">>), File(<<"requirements.txt">>), File(<<"Pipfile">>),
      File(<<"src", "util.py">>), File(<<"lib", "util.py">>),
      File(<<"src", "node_modules", "dep.js">>), Dir(<<"dist">>),
      File(<<"lib", "tests", "sub", "keep.py">>),
      File(<<"build", "pkg", "dist", "keep.py">>),
      File(<<"package.json">>), File(<<"pyproject.toml">>) }

\* An archive: the uploaded bytes, either a zip of members or not a zip at all.
Zip(members) == [corrupt |-> FALSE, oversize |-> FALSE, members |-> members]
CorruptArchive == [corrupt |-> TRUE, oversize |-> FALSE, members |-> {}]

\* A readable archive whose decompressed size is beyond every cap a guard
\* would set (the members named are the ones the model follows).
Oversized(members) == [corrupt |-> FALSE, oversize |-> TRUE, members |-> members]

Archives ==
    { Zip(m) : m \in { a \in SUBSET CandidateMembers : Cardinality(a) <= MaxArchiveFiles } }

\* zipfile.ZipFile.extractall: every member, and the directories leading to it
Ancestors(p) == { SubSeq(p, 1, n) : n \in 1..(Len(p) - 1) }

extractall(a) ==
    a.members \cup { Dir(q) : q \in UNION { Ancestors(e.path) : e \in a.members } }

\* shutil.rmtree(dPath): the directory and everything below it
rmtree(t, dPath) == { e \in t : ~IsPrefix(dPath, e.path) }

\* the test of line 55 cut to its extension part
MatchesNoiseFileByExtension(f) ==
    \E ext \in extensionsToDelete : EndsWith(Lower(f), ext)

\* cleaner.py line 55: the test that removes a file
MatchesNoiseFile(f) ==
    LET fLower == Lower(f)
    IN  \/ fLower \in noiseFiles
        \/ StartsWithDot(fLower)
        \/ \E ext \in extensionsToDelete : EndsWith(fLower, ext)

\* os.walk's listing of one directory
ListDirs(t, root) == { e \in t : e.kind = "dir" /\ Parent(e) = root }
ListFiles(t, root) == { e \in t : e.kind = "file" /\ Parent(e) = root }

\* The body of stripNoise's loop for one (root, dirs, files) of the walk.
StripOne(t, root, dirs, files) ==
    LET noisy == { d \in dirs : Name(d) \in noiseDirs }
        afterDirs == { e \in t : \A d \in noisy : e \in rmtree(t, d.path) }
    IN  { e \in afterDirs : ~(e \in files /\ MatchesNoiseFile(Name(e))) }

\* a walk that hands only the top directory to the loop body
WalkTopOnly(t, root) == StripOne(t, root, ListDirs(t, root), ListFiles(t, root))

\* os.walk(path, topdown=False): a directory is listed, its subdirectories are
\* walked, and only then is it handed to the loop body with that listing.
RECURSIVE WalkBottomUp(_, _)
RECURSIVE WalkEach(_, _)
WalkEach(t, pending) ==
    IF pending = {} THEN t
    ELSE LET d == CHOOSE x \in pending : TRUE
         IN  WalkEach(WalkBottomUp(t, d.path), pending \ {d})

WalkBottomUp(t, root) ==
    LET dirs == ListDirs(t, root)
        files == ListFiles(t, root)
    IN  StripOne(WalkEach(t, dirs), root, dirs, files)

stripNoise(t) == WalkBottomUp(t, <<>>)

(***************************************************************************)
(* cleaner.py unzipAndClean(zipPath, extractTo): what is at extractTo      *)
(* afterwards, and whether the call returned.  A prior tree is removed     *)
(* first; zipfile.ZipFile raises BadZipFile on a file that is no zip,      *)
(* which is after the rmtree and before anything is extracted.             *)
(***************************************************************************)
\* without lines 31-32: the archive is extracted over what is there
unzipAndCleanOver(a, before) ==
    IF a.corrupt
    THEN [raised |-> TRUE, at |-> before]
    ELSE [raised |-> FALSE,
          at |-> DirOf(stripNoise(before.entries \cup extractall(a)))]

\* extractall makes the target directory when it writes the first member
unzipAndClean(a, before) ==
    LET cleared == IF before.exists THEN NoDir ELSE before
    IN  IF a.corrupt
        THEN [raised |-> TRUE, at |-> cleared]
        ELSE [raised |-> FALSE,
              at |-> IF a.members = {} THEN NoDir
                     ELSE DirOf(stripNoise(extractall(a)))]

(***************************************************************************)
(* create_summary.py line 12: the retry decorator of generateWithGemini,   *)
(*   @retry(wait=wait_random_exponential(min=10, max=60),                  *)
(*          stop=stop_after_attempt(4),                                    *)
(*          retry=retry_if_exception_type(Exception))                      *)
(***************************************************************************)
maxAttempts == 4
waitMin == 10
waitMax == 60

Max2(a, b) == IF a >= b THEN a ELSE b
Min2(a, b) == IF a <= b THEN a ELSE b

\* stop_after_attempt(4): stop once attempt_number >= 4
StopAfterAttemptOffByOne(n) == n > maxAttempts
StopAfterAttempt(n) == n >= maxAttempts

\* wait_exponential: multiplier 1, base 2, clamped into [min, max]
WaitHigh(n) == Max2(Max2(0, waitMin), Min2(2 ^ (n - 1), waitMax))

\* wait_random_exponential draws uniformly below WaitHigh: from [min, high] in
\* tenacity's current releases, from [0, high] in its earlier ones.  Whole
\* seconds of either range.
WaitChoices(n) == 0..WaitHigh(n)

\* One call of generateWithGemini when the service fails the first `failures`
\* attempts: whether it raised (RetryError) and the attempts it made.
RECURSIVE RetryFrom(_, _)
RetryFrom(n, failures) ==
    IF n > failures THEN [raised |-> FALSE, attempts |-> n]
    ELSE IF StopAfterAttempt(n) THEN [raised |-> TRUE, attempts |-> n]
    ELSE RetryFrom(n + 1, failures)

generateWithGemini(failures) == RetryFrom(1, failures)

(***************************************************************************)
(* The text a generation call returns, as a sequence of tokens: a run of   *)
(* whitespace, a code fence (three backticks), the language tag "json"     *)
(* right after a fence, prose, or the text of one JSON value.  A JSON      *)
(* value is an array of items, an object, or a scalar; an item of an array *)
(* is described by what the validation of main.py lines 271-276 reads.     *)
(***************************************************************************)
JNone == [kind |-> "none", items |-> <<>>]
JArray(items) == [kind |-> "array", items |-> items]
JObject == [kind |-> "object", items |-> <<>>]
JScalar == [kind |-> "scalar", items |-> <<>>]

Ws == [t |-> "ws", v |-> JNone]
Fence == [t |-> "fence", v |-> JNone]
LangJson == [t |-> "json", v |-> JNone]
Prose == [t |-> "prose", v |-> JNone]
JsonText(v) == [t |-> "value", v |-> v]

\* What one array element looks like.
ItemShapes ==
    { [isDict |-> TRUE, keys |-> {"question", "options", "answer"},
       optionsIsList |-> TRUE, nOptions |-> 2],
      [isDict |-> TRUE, keys |-> {"question", "options", "answer"},
       optionsIsList |-> TRUE, nOptions |-> 1],
      [isDict |-> TRUE, keys |-> {"question", "options", "answer"},
       optionsIsList |-> FALSE, nOptions |-> 3],
      [isDict |-> TRUE, keys |-> {"question", "options"},
       optionsIsList |-> TRUE, nOptions |-> 4],
      [isDict |-> TRUE, keys |-> {"question", "answer"},
       optionsIsList |-> FALSE, nOptions |-> 0],
      [isDict |-> FALSE, keys |-> {},
       optionsIsList |-> FALSE, nOptions |-> 0] }

FourOptions ==
    [isDict |-> TRUE, keys |-> {"question", "options", "answer"},
     optionsIsList |-> TRUE, nOptions |-> 4]

\* An item: its place in the response and its shape.
Item(i, shape) == [id |-> i, shape |-> shape]

\* str.strip(): leading and trailing whitespace removed
RECURSIVE lstrip(_)
lstrip(s) == IF s # <<>> /\ Head(s) = Ws THEN lstrip(Tail(s)) ELSE s
RECURSIVE rstrip(_)
rstrip(s) ==
    IF s # <<>> /\ s[Len(s)] = Ws THEN rstrip(SubSeq(s, 1, Len(s) - 1)) ELSE s
strip(s) == rstrip(lstrip(s))

\* mcq_response.startswith('```json') and mcq_response[7:]
StartsWithJsonFence(s) == Len(s) >= 2 /\ s[1] = Fence /\ s[2] = LangJson
DropJsonFence(s) == SubSeq(s, 3, Len(s))

\* mcq_response.endswith('```') and mcq_response[:-3]
EndsWithFence(s) == s # <<>> /\ s[Len(s)] = Fence
DropEndFence(s) == SubSeq(s, 1, Len(s) - 1)

\* json.loads: one JSON value, whitespace allowed around it; anything else
\* raises JSONDecodeError
json_loads(s) ==
    LET body == strip(s)
    IN  IF Len(body) = 1 /\ body[1].t = "value"
        THEN [raised |-> FALSE, value |-> body[1].v]
        ELSE [raised |-> TRUE, value |-> JNone]

\* main.py lines 271-276
PassesFilterTooStrict(mcq) ==
    /\ mcq.shape.isDict
    /\ "question" \in mcq.shape.keys
    /\ "options" \in mcq.shape.keys
    /\ "answer" \in mcq.shape.keys
    /\ mcq.shape.optionsIsList
    /\ mcq.shape.nOptions > 2

PassesFilter(mcq) ==
    /\ mcq.shape.isDict
    /\ "question" \in mcq.shape.keys
    /\ "options" \in mcq.shape.keys
    /\ "answer" \in mcq.shape.keys
    /\ mcq.shape.optionsIsList
    /\ mcq.shape.nOptions >= 2

\* main.py line 278: valid_mcqs[:15]
maxMcqs == 15

\* main.py lines 269-277: the loop that appends each passing item
RECURSIVE FilterValid(_)
FilterValid(mcqs) ==
    IF mcqs = <<>> THEN <<>>
    ELSE IF PassesFilter(Head(mcqs))
         THEN <<Head(mcqs)>> \o FilterValid(Tail(mcqs))
         ELSE FilterValid(Tail(mcqs))

Take(s, n) == SubSeq(s, 1, Min2(n, Len(s)))

\* main.py lines 256-282, from the text the generation call returned: strip,
\* drop the fences, parse, validate; any exception gives the empty list.
ParseReportQuiz(resp) ==
    LET s1 == strip(resp)
        s2 == IF StartsWithJsonFence(s1) THEN DropJsonFence(s1) ELSE s1
        s3 == IF EndsWithFence(s2) THEN DropEndFence(s2) ELSE s2
        parsed == json_loads(s3)
    IN  IF parsed.raised THEN JArray(<<>>)
        ELSE IF parsed.value.kind # "array" THEN JArray(<<>>)
        ELSE JArray(Take(FilterValid(parsed.value.items), maxMcqs))

\* main.py lines 149-153 (generate_mcqs): the parsed value as it is, or the
\* empty list when json.loads raises
ParseMcqs(mcq_json) ==
    LET parsed == json_loads(mcq_json)
    IN  IF parsed.raised THEN JArray(<<>>) ELSE parsed.value

(***************************************************************************)
(* create_summary.py createSummary(db).  A stored document carries the     *)
(* path of the file it was cut from in metadata["source"] (<<>>: the       *)
(* document has no source).  A summary is identified by the position of    *)
(* the document it summarises.                                             *)
(***************************************************************************)
Doc(source) == [source |-> source]

\* lines 33-34: doc.metadata.get("source", f"File_{i+1}"), os.path.basename;
\* pos is the document's position counted from 1, which is i + 1
Filename(doc, pos) ==
    IF doc.source = <<>>
    THEN [name |-> "File_", n |-> pos]
    ELSE [name |-> doc.source[Len(doc.source)], n |-> 0]

\* summaries[filename] = summary
Put(m, k, v) == [x \in DOMAIN m \cup {k} |-> IF x = k THEN v ELSE m[x]]

\* line 41: time.sleep(5)
sleepSeconds == 5

\* delays[i]: the seconds slept between the task of document i and the next
\* pass of the loop
SummaryStart ==
    [idx |-> 1, summaries |-> <<>>, outcomes |-> <<>>, sleeps |-> 0,
     delays |-> <<>>, raised |-> FALSE]

\* lines 31-43: the loop body for the document at st.idx; gen is how its
\* generateWithGemini call ended
SummarizeDocNoCatch(st, docs, gen) ==
    IF gen.raised
    THEN [st EXCEPT !.outcomes = Append(@, "failed"), !.raised = TRUE]
    ELSE [st EXCEPT !.summaries = Put(@, Filename(docs[st.idx], st.idx), st.idx),
                    !.outcomes = Append(@, "ok"),
                    !.sleeps = @ + 1,
                    !.delays = Append(@, sleepSeconds),
                    !.idx = @ + 1]

SummarizeDoc(st, docs, gen) ==
    IF gen.raised
    THEN [st EXCEPT !.outcomes = Append(@, "failed"),
                    !.delays = Append(@, 0),
                    !.idx = @ + 1]
    ELSE [st EXCEPT !.summaries = Put(@, Filename(docs[st.idx], st.idx), st.idx),
                    !.outcomes = Append(@, "ok"),
                    !.sleeps = @ + 1,
                    !.delays = Append(@, sleepSeconds),
                    !.idx = @ + 1]

\* the whole call, when the service fails the first failures[i] attempts
\* made for document i
RECURSIVE SummaryLoop(_, _, _)
SummaryLoop(st, docs, failures) ==
    IF st.raised \/ st.idx > Len(docs) THEN st
    ELSE SummaryLoop(SummarizeDoc(st, docs, generateWithGemini(failures[st.idx])),
                     docs, failures)

createSummary(docs, failures) == SummaryLoop(SummaryStart, docs, failures)

(***************************************************************************)
(* pdf_generator.py: the analysis of the tree below extract_dir.  A file   *)
(* is [path, decls, names]: decls are the route declarations of its text,  *)
(* one to a line, in order; names are the library names its text holds     *)
(* (for package.json: the keys of its dependencies).                       *)
(***************************************************************************)
SrcFile(path, decls) ==
    [path |-> path, decls |-> decls, names |-> {}, read |-> "ok"]
Manifest(name, names) ==
    [path |-> <<name>>, decls |-> <<>>, names |-> names, read |-> "ok"]

\* A route declaration: @app.get("/items"), @router.get("/items"), or
\* @app.route("/items", methods=["GET"])
Decl(form, method, path) == [form |-> form, method |-> method, path |-> path]

DeclForms == { "app", "router", "route" }
HttpMethods == { "GET", "POST" }
RoutePaths == { "/items" }

\* str.upper()
Upper(t) ==
    CASE t = "get"    -> "GET"
      [] t = "post"   -> "POST"
      [] t = "/items" -> "/ITEMS"
      [] OTHER        -> t

\* the method as a decorator names it, and as a methods=[...] list holds it
DecoratorName(method) == IF method = "GET" THEN "get" ELSE "post"
MethodsText(method) == IF method = "GET" THEN "\"GET\"" ELSE "\"POST\""

\* lines 399-403: re.findall(pattern, content, re.IGNORECASE); the groups
\* of the first two patterns are (method, path), of the third (path, list)
api_patterns == << "app", "router", "route" >>

GroupsOf(d) ==
    IF d.form = "route" THEN << d.path, MethodsText(d.method) >>
    ELSE << DecoratorName(d.method), d.path >>

FindAll(pattern, content) ==
    LET hits == SelectSeq(content, LAMBDA d : d.form = pattern)
    IN  [i \in 1..Len(hits) |-> GroupsOf(hits[i])]

\* lines 415-421: method, endpoint = match
EntryOf(match, file) ==
    [method |-> Upper(match[1]), endpoint |-> match[2], file |-> file]

\* lines 413-421 for one file: pattern by pattern, match by match
RECURSIVE ScanPatterns(_, _)
ScanPatterns(f, k) ==
    IF k > Len(api_patterns) THEN <<>>
    ELSE LET matches == FindAll(api_patterns[k], f.decls)
         IN  [i \in 1..Len(matches) |-> EntryOf(matches[i], f.path)]
                \o ScanPatterns(f, k + 1)

\* os.walk(extract_dir): the top directory's files, then each directory's
AnalyzerWalk == << <<"app.py">>, <<"index.js">>, <<"requirements.txt">>,
                  <<"Pipfile">>, <<"pyproject.toml">>, <<"package.json">>,
                  <<"pkg", "views.py">> >>

FileAt(tree, path) == CHOOSE f \in tree : f.path = path

WalkFiles(tree) ==
    LET met == SelectSeq(AnalyzerWalk, LAMBDA q : \E f \in tree : f.path = q)
    IN  [i \in 1..Len(met) |-> FileAt(tree, met[i])]

\* try: with open(file_path, 'r', ...) as f: content = f.read() ...
\* except: pass.  f.read is how the open and the read of the file end: "ok",
\* "error" (it cannot be opened or decoded), or "badjson" (it is read, but
\* json.load of it raises or gives no object).
TryReadNoCatch(f, asJson) ==
    LET ok == f.read = "ok" \/ (~asJson /\ f.read = "badjson")
    IN  [raised |-> ~ok, ok |-> ok]

TryRead(f, asJson) ==
    [raised |-> FALSE, ok |-> f.read = "ok" \/ (~asJson /\ f.read = "badjson")]

\* extract_api_endpoints, lines 393-425: [raised, list]
RECURSIVE ScanFiles(_)
ScanFiles(files) ==
    IF files = <<>> THEN [raised |-> FALSE, list |-> <<>>]
    ELSE LET f == Head(files)
             isPy == EndsWith(f.path[Len(f.path)], ".py")
             r == TryRead(f, FALSE)
             rest == ScanFiles(Tail(files))
         IN  IF (isPy /\ r.raised) \/ rest.raised
             THEN [raised |-> TRUE, list |-> <<>>]
             ELSE [raised |-> FALSE,
                   list |-> (IF isPy /\ r.ok THEN ScanPatterns(f, 1) ELSE <<>>)
                               \o rest.list]

extract_api_endpoints(tree) == ScanFiles(WalkFiles(tree)).list

\* lines 196-217: os.path.splitext(file)[1].lower() and the language of it
LanguageOf(name) ==
    LET ext == Lower(DotSuffix(name))
    IN  IF ext = ".py" THEN {"Python"}
        ELSE IF ext = ".js" THEN {"JavaScript"}
        ELSE {}

Languages(tree) == UNION { LanguageOf(f.path[Len(f.path)]) : f \in tree }

\* lines 240-254 (framework_map of the Python manifests) and 290-299 (of
\* package.json), cut to the libraries the trees name
PythonFrameworkMap(lib) == IF lib = "flask" THEN {"Flask"} ELSE {}
NodeFrameworkMap(lib) == IF lib = "react" THEN {"React"} ELSE {}

\* _analyze_python_dependencies, lines 241-274
PythonFrameworks(f) == UNION { PythonFrameworkMap(lib) : lib \in f.names }

\* _analyze_node_dependencies, lines 276-304
NodeFrameworks(f) == UNION { NodeFrameworkMap(lib) : lib \in f.names }

\* _detect_frameworks_and_libraries, lines 229-240: the manifests at the top
\* of extract_dir
requirements_files == { "requirements.txt", "Pipfile", "pyproject.toml" }

Frameworks(tree) ==
    UNION { IF f.path \in { <<n>> : n \in requirements_files }
            THEN PythonFrameworks(f)
            ELSE IF f.path = <<"package.json">> THEN NodeFrameworks(f)
            ELSE {} : f \in tree }

\* list(a_set): the elements in an order the build decides
Listings(S) ==
    { q \in UNION { [1..n -> S] : n \in {Cardinality(S)} } :
        \A i, j \in 1..Len(q) : i # j => q[i] # q[j] }

Range(q) == { q[i] : i \in 1..Len(q) }

NoEndpoints == [done |-> FALSE, list |-> <<>>]

(***************************************************************************)
(* pdf_generator.py analyze_dependencies, lines 353-391.  A file is        *)
(* [path, read, lines, decls]: read is how open() and f.read() of it end   *)
(* ("ok", "error"; for package.json also "badjson": json.load raises);     *)
(* lines is its text line by line (for package.json: the keys of           *)
(* dependencies, then of devDependencies).  A line is a sequence of        *)
(* tokens: a space, one of the characters # = > < ! ~, or a run of other   *)
(* characters (a name, a version, the words of a comment).                 *)
(***************************************************************************)
DetFile(path, read, lines, decls) ==
    [path |-> path, read |-> read, lines |-> lines, decls |-> decls]

\* str.strip() of a line
RECURSIVE LStrip(_)
LStrip(l) == IF l # <<>> /\ Head(l) = " " THEN LStrip(Tail(l)) ELSE l
RECURSIVE RStrip(_)
RStrip(l) ==
    IF l # <<>> /\ l[Len(l)] = " " THEN RStrip(SubSeq(l, 1, Len(l) - 1)) ELSE l
Strip(l) == RStrip(LStrip(l))

\* line 372: re.split(r'[>=<!=]', line)[0], the text before the first
\* character of the class
SplitChars == { ">", "=", "<", "!" }

RECURSIVE BeforeSplit(_)
BeforeSplit(l) ==
    IF l = <<>> \/ Head(l) \in SplitChars THEN <<>>
    ELSE <<Head(l)>> \o BeforeSplit(Tail(l))

\* lines 368-374: the loop over the lines of one manifest
RECURSIVE DepsOfLines(_)
DepsOfLines(lines) ==
    IF lines = <<>> THEN <<>>
    ELSE LET line == Strip(Head(lines))
             pkg_name == Strip(BeforeSplit(line))
         IN  (IF line # <<>> /\ Head(line) # "#" /\ pkg_name # <<>>
              THEN <<pkg_name>> ELSE <<>>) \o DepsOfLines(Tail(lines))

\* lines 359-377 for one req_file that exists: except → []
DepsOfManifest(f) == IF f.read = "ok" THEN DepsOfLines(f.lines) ELSE <<>>

\* lines 380-389: package.json, deps + dev_deps; except → []
DepsOfPackageJson(f) == IF f.read = "ok" THEN f.lines ELSE <<>>

HasFile(tree, path) == \E f \in tree : f.path = path

analyze_dependencies(tree) ==
    LET found == { n \in requirements_files \cup {"package.json"} :
                     HasFile(tree, <<n>>) }
    IN  [n \in found |->
            IF n = "package.json" THEN DepsOfPackageJson(FileAt(tree, <<n>>))
            ELSE DepsOfManifest(FileAt(tree, <<n>>))]

NoDependencies == [done |-> FALSE, map |-> <<>>]

(***************************************************************************)
(* pdf_generator.py analyze_project_structure, lines 114-129: a dict       *)
(* display of eleven detector calls, evaluated in order; an exception      *)
(* leaving a detector leaves analyze_project_structure.  What a detector   *)
(* found is recorded by the files whose text it took in (from); for        *)
(* api_endpoints and dependencies also by the value.                       *)
(***************************************************************************)
Detectors ==
    { "project_info", "tech_stack", "file_structure", "dependencies",
      "api_endpoints", "database_schema", "environment_vars", "testing_info",
      "deployment_info", "security_analysis", "performance_metrics" }

Top(tree, names) == { f \in tree : \E n \in names : f.path = <<n>> }
WithSuffix(tree, exts) == { f \in tree : DotSuffix(Name(f)) \in exts }

\* line 454: 'model' in file.lower() or 'schema' in file.lower(), over the
\* names the trees use
NamesModel(name) == name \in { "models.py", "schema.py" }

\* the files a detector opens inside a try (project_info: the first README
\* of its list that exists; the trees hold README.md, the first of the list)
Opens(k, tree) ==
    CASE k = "project_info" ->
            Top(tree, {"package.json", "README.md"})
      [] k = "tech_stack" ->
            Top(tree, requirements_files \cup {"package.json"})
      [] k = "file_structure" -> tree
      [] k = "dependencies" ->
            Top(tree, requirements_files \cup {"package.json"})
      [] k = "api_endpoints" -> WithSuffix(tree, {".py"})
      [] k = "database_schema" ->
            WithSuffix(tree, {".sql"})
                \cup { f \in WithSuffix(tree, {".py"}) : NamesModel(Name(f)) }
      [] k = "environment_vars" ->
            Top(tree, {".env", ".env.example", ".env.local", ".env.production"})
                \cup WithSuffix(tree, {".py", ".js", ".ts"})
      [] k = "testing_info" ->
            Top(tree, {"package.json", "requirements.txt", "requirements-dev.txt"})
      [] k = "deployment_info" -> {}
      [] k = "security_analysis" -> WithSuffix(tree, {".py", ".js", ".ts"})
      [] k = "performance_metrics" ->
            WithSuffix(tree, {".py", ".js", ".ts", ".json"})

\* json.load of the file is inside the same try
ParsesJson(k, f) ==
    /\ f.path = <<"package.json">>
    /\ k \in {"project_info", "tech_stack", "dependencies", "testing_info"}

Detector(k, tree) ==
    LET tried == [f \in Opens(k, tree) |-> TryRead(f, ParsesJson(k, f))]
    IN  [raised |-> \E f \in Opens(k, tree) : tried[f].raised,
         from |-> { f.path : f \in { g \in Opens(k, tree) : tried[g].ok } }]

analyze_project_structure(tree) ==
    LET r == [k \in Detectors |-> Detector(k, tree)]
    IN  IF \E k \in Detectors : r[k].raised
        THEN [done |-> TRUE, raised |-> TRUE, facts |-> <<>>,
              api_endpoints |-> <<>>, dependencies |-> <<>>]
        ELSE [done |-> TRUE, raised |-> FALSE,
              facts |-> [k \in Detectors |-> r[k].from],
              api_endpoints |-> extract_api_endpoints(tree),
              dependencies |-> analyze_dependencies(tree)]

NoAnalysis ==
    [done |-> FALSE, raised |-> FALSE, facts |-> <<>>,
     api_endpoints |-> <<>>, dependencies |-> <<>>]
NoTechStack == [done |-> FALSE, languages |-> <<>>, frameworks |-> <<>>]

(***************************************************************************)
(* pdf_generator.py generate_enhanced_pdf, lines 709-854.  The story is a  *)
(* sequence of flowables [section, kind].  The arguments: logo is "none"   *)
(* (no path), "missing" (a path of no file), "image" or "broken" (a file   *)
(* that is not an image); diagram is how create_simple_architecture_       *)
(* diagram ends; the analysis by what the sections test; the quiz by its   *)
(* size.                                                                   *)
(***************************************************************************)
Flow(section, kind) == [section |-> section, kind |-> kind]

maxPdfEndpoints == 10
maxPdfMcqs == 5

NoAssembly ==
    [logo |-> "none", diagram |-> "ok", languages |-> FALSE,
     frameworks |-> FALSE, file_types |-> FALSE, nEndpoints |-> 0, nMcqs |-> 0]

\* lines 715-729: the title, the logo when its file is there, the subtitle.
\* Image() of a file that is not an image raises at construction (caught,
\* line 724) or only when the document is built, as the library decides.
TitlePage(in, eager) ==
    << Flow("title", "heading") >>
    \o (IF in.logo = "image" THEN << Flow("title", "logo") >>
        ELSE IF in.logo = "broken" /\ ~eager THEN << Flow("title", "broken logo") >>
        ELSE <<>>)
    \o << Flow("title", "text"), Flow("title", "pagebreak") >>

\* lines 731-759: the narrative and the statistics table
Overview(in) ==
    << Flow("overview", "heading"), Flow("overview", "text"),
       Flow("overview", "table"), Flow("overview", "pagebreak") >>

\* lines 761-776
TechnologyStack(in) ==
    << Flow("technology", "heading") >>
    \o (IF in.languages THEN << Flow("technology", "languages") >> ELSE <<>>)
    \o (IF in.frameworks THEN << Flow("technology", "frameworks") >> ELSE <<>>)
    \o << Flow("technology", "pagebreak") >>

\* lines 778-788: the heading, and the diagram inside try/except
ArchitectureUncaught(in) ==
    IF in.diagram = "raises"
    THEN [raised |-> TRUE, flow |-> << Flow("architecture", "heading") >>]
    ELSE [raised |-> FALSE,
          flow |-> << Flow("architecture", "heading"),
                      Flow("architecture", "diagram"),
                      Flow("architecture", "pagebreak") >>]

Architecture(in) ==
    [raised |-> FALSE,
     flow |-> << Flow("architecture", "heading") >>
              \o (IF in.diagram = "ok" THEN << Flow("architecture", "diagram") >>
                  ELSE <<>>)
              \o << Flow("architecture", "pagebreak") >>]

\* lines 790-811
FileStructure(in) ==
    << Flow("files", "heading") >>
    \o (IF in.file_types THEN << Flow("files", "table") >> ELSE <<>>)
    \o << Flow("files", "pagebreak") >>

\* lines 813-836: only when endpoints were found; at most 10 rows
ApiEndpoints(in) ==
    IF in.nEndpoints = 0 THEN <<>>
    ELSE << Flow("endpoints", "heading"),
            [section |-> "endpoints", kind |-> "table",
             rows |-> Min2(in.nEndpoints, maxPdfEndpoints)],
            Flow("endpoints", "pagebreak") >>

\* lines 838-850: only for a non-empty quiz; at most 5 questions
KnowledgeAssessment(in) ==
    IF in.nMcqs = 0 THEN <<>>
    ELSE << Flow("quiz", "heading") >>
         \o [i \in 1..Min2(in.nMcqs, maxPdfMcqs) |-> Flow("quiz", "question")]

\* line 853: doc.build(story) draws every flowable
BuildRaises(flowables) ==
    \E i \in 1..Len(flowables) : flowables[i].kind = "broken logo"

(***************************************************************************)
(* main.py chunkDocs, lines 69-71: RecursiveCharacterTextSplitter(         *)
(* chunk_size=1000, chunk_overlap=200).split_documents, with the           *)
(* splitter's defaults: separators "\n\n", "\n", " ", ""; the separator    *)
(* kept at the head of the piece that follows it; every chunk stripped of  *)
(* the whitespace around it.  A text here is words with one space between  *)
(* them; a piece is [start, len, lead], lead = 1 when it opens with the    *)
(* space.                                                                  *)
(***************************************************************************)
chunk_size == 1000
chunk_overlap == 200

RECURSIVE SumLen(_)
SumLen(q) == IF q = <<>> THEN 0 ELSE Head(q).len + SumLen(Tail(q))

RECURSIVE WordStart(_, _)
WordStart(words, k) ==
    IF k = 1 THEN 0 ELSE WordStart(words, k - 1) + words[k - 1] + 1

TextLen(words) ==
    IF words = <<>> THEN 0
    ELSE WordStart(words, Len(words)) + words[Len(words)]

\* _split_text_with_regex(text, " ", keep_separator=True)
Pieces(words) ==
    [k \in 1..Len(words) |->
        IF k = 1 THEN [start |-> 0, len |-> words[1], lead |-> 0]
        ELSE [start |-> WordStart(words, k) - 1, len |-> words[k] + 1, lead |-> 1]]

\* _join_docs: the pieces joined, then .strip()
JoinDocs(cur) ==
    [start |-> cur[1].start + cur[1].lead, len |-> SumLen(cur) - cur[1].lead]

\* _merge_splits: the while loop that drops pieces from the front
RECURSIVE PopFront(_, _)
PopFront(cur, len) ==
    IF SumLen(cur) > chunk_overlap
          \/ (SumLen(cur) + len > chunk_size /\ SumLen(cur) > 0)
    THEN PopFront(Tail(cur), len)
    ELSE cur

\* _merge_splits(splits, ""), from split i on, with current_doc = cur
RECURSIVE MergeFrom(_, _, _)
MergeFrom(splits, i, cur) ==
    IF i > Len(splits)
    THEN (IF cur = <<>> THEN <<>> ELSE << JoinDocs(cur) >>)
    ELSE LET d == splits[i]
         IN  IF SumLen(cur) + d.len > chunk_size /\ cur # <<>>
             THEN << JoinDocs(cur) >>
                    \o MergeFrom(splits, i + 1, Append(PopFront(cur, d.len), d))
             ELSE MergeFrom(splits, i + 1, Append(cur, d))

merge_splits(splits) == MergeFrom(splits, 1, <<>>)

\* A piece without a separator left in it falls to the separator "": it is
\* cut into characters and merged, which gives windows of chunk_size that
\* advance by chunk_size - chunk_overlap; the first is stripped of the
\* piece's opening space.
RECURSIVE WindowsFrom(_, _)
WindowsFrom(piece, at) ==
    LET lead == IF at = 0 THEN piece.lead ELSE 0
    IN  << [start |-> piece.start + at + lead,
            len |-> Min2(chunk_size, piece.len - at) - lead] >>
        \o (IF at + chunk_size >= piece.len THEN <<>>
            ELSE WindowsFrom(piece, at + chunk_size - chunk_overlap))

\* _split_text over the pieces: the short ones gathered and merged, a long
\* one split again with the separators that remain
RECURSIVE SplitPieces(_, _, _)
SplitPieces(pieces, i, good) ==
    IF i > Len(pieces) THEN merge_splits(good)
    ELSE IF pieces[i].len < chunk_size
         THEN SplitPieces(pieces, i + 1, Append(good, pieces[i]))
         ELSE merge_splits(good) \o WindowsFrom(pieces[i], 0)
                \o SplitPieces(pieces, i + 1, <<>>)

\* split_text of one document
split_text(words) ==
    IF words = <<>> THEN <<>>
    ELSE IF Len(words) = 1
         THEN WindowsFrom([start |-> 0, len |-> words[1], lead |-> 0], 0)
         ELSE SplitPieces(Pieces(words), 1, <<>>)

(***************************************************************************)
(* Variables a specification does not use keep these values.               *)
(***************************************************************************)
AnalysisIdle ==
    /\ anaTree = {}
    /\ endpoints = NoEndpoints
    /\ tech_stack = NoTechStack

StoryIdle ==
    /\ asmIn = NoAssembly
    /\ story = <<>>
    /\ asmPc = "title"

SplitIdle ==
    /\ splitText = <<>>
    /\ splitChunks = <<>>
    /\ splitPc = "text"

DetectIdle ==
    /\ detTree = {}
    /\ dependencies = NoDependencies
    /\ analysis = NoAnalysis

RestIdle == AnalysisIdle /\ StoryIdle /\ SplitIdle /\ DetectIdle

NoiseIdle ==
    /\ extractTo = NoDir
    /\ normArchive = Zip({})
    /\ normResult = "none"
    /\ normRuns = 0
    /\ normRepeat = FALSE

RetryIdle ==
    /\ retryPc = "attempt"
    /\ attemptNumber = 1
    /\ attemptsMade = 0
    /\ waitsMade = 0
    /\ totalWait = 0

QuizIdle ==
    /\ rawResponse = <<>>
    /\ quizPc = "raw"
    /\ quizMcqs = JNone

SumIdle ==
    /\ sumDocs = <<>>
    /\ sumState = SummaryStart
    /\ sumPc = "loop"

(***************************************************************************)
(* main.py: the ingestion helpers.                                         *)
(***************************************************************************)
\* The order in which DirectoryLoader meets the files of a tree.
LoadOrder ==
    << <<"main.py">>, <<"README.md">>, <<"Pipfile">>, <<"lib", "util.py">>,
       <<"src", "util.py">>, <<"src", "Makefile">> >>

\* glob="**/*.*": the file name holds a dot
HasDot(f) == DotSuffix(f) # ""

\* loadDocs(folder): one document for each file the glob matches
loadDocs(tree) ==
    LET met == SelectSeq(LoadOrder,
                         LAMBDA q : File(q) \in tree /\ HasDot(q[Len(q)]))
    IN  [i \in 1..Len(met) |-> Doc(met[i])]

\* The windows RecursiveCharacterTextSplitter cuts a file into: main.py is
\* longer than chunk_size, the other files are not.
ChunkCount(doc) == IF doc.source = <<"main.py">> THEN 2 ELSE 1

\* chunkDocs(docs): each document's chunks, in order, each with its source
RECURSIVE chunkDocs(_)
chunkDocs(docs) ==
    IF docs = <<>> THEN <<>>
    ELSE [k \in 1..ChunkCount(Head(docs)) |-> Head(docs)] \o chunkDocs(Tail(docs))

\* embedAndStore(chunks): FAISS.from_documents raises on no chunks at all, and
\* when the embedding service does not answer
embedAndStoreLenient(chunks, serviceUp) == [raised |-> FALSE, db |-> chunks]
embedAndStore(chunks, serviceUp) ==
    IF chunks = <<>> \/ ~serviceUp
    THEN [raised |-> TRUE, db |-> <<>>]
    ELSE [raised |-> FALSE, db |-> chunks]

(***************************************************************************)
(* main.py: the registry and the per-session directories.                  *)
(***************************************************************************)
\* session_dbs.get(session_id) is not None
SessionKnown(dbs, session_id) == session_id \in DOMAIN dbs

\* session_dbs[session_id] = embedAndStore(chunks)
RegisterNothing(dbs, session_id, db) == dbs
RegisterAlone(dbs, session_id, db) == Put(<<>>, session_id, db)
Register(dbs, session_id, db) == Put(dbs, session_id, db)

ZipFile(session_id) == [kind |-> "zip", session |-> session_id]
\* main.py lines 313-314: comprehensive_documentation_{session_id}.pdf
PdfFileOneName(session_id) == [kind |-> "pdf", session |-> 0]
PdfFile(session_id) == [kind |-> "pdf", session |-> session_id]

\* get_session_dirs: both directories are made if they are not there
MkUploadDir(dirs, session_id) ==
    IF session_id \in DOMAIN dirs THEN dirs ELSE Put(dirs, session_id, {})
MkExtractDirFresh(dirs, session_id) == Put(dirs, session_id, DirOf({}))
MkExtractDir(dirs, session_id) ==
    IF session_id \in DOMAIN dirs /\ dirs[session_id].exists THEN dirs
    ELSE Put(dirs, session_id, DirOf({}))

\* The archives the clients upload.
UploadArchives ==
    { Zip({ File(<<"src", "util.py">>), File(<<"lib", "util.py">>) }),
      Zip({ File(<<"Pipfile">>), File(<<".env">>) }),
      Oversized({ File(<<"main.py">>) }),
      CorruptArchive }

\* The texts the quiz generation call returns.
QuizResponses ==
    { <<Prose>>,
      <<JsonText(JArray(<<Item(1, FourOptions),
                          Item(2, [FourOptions EXCEPT !.nOptions = 1])>>))>> }

(***************************************************************************)
(* A request: which handler, its argument, where the handler stands, its   *)
(* locals, and the response once it has ended.                             *)
(***************************************************************************)
NoDoc == [built |-> FALSE, quizSection |-> FALSE]

IdleReq ==
    [kind |-> "idle", pc |-> "idle", sid |-> 0, archive |-> Zip({}),
     lookup |-> "none", chunks |-> <<>>, files_processed |-> 0,
     genCalls |-> 0, ran |-> {}, summaries |-> <<>>, narrative |-> "none",
     resp |-> <<>>, mcqs |-> JNone, doc |-> NoDoc, failedAt |-> "",
     http |-> 0, status |-> "", message |-> "", ready |-> FALSE]

Slots == 1..MaxRequests

\* an exception no handler catches: the framework answers 500
Uncaught(req, stage) ==
    [req EXCEPT !.pc = "done", !.http = 500, !.status = "",
                !.message = "Internal Server Error", !.failedAt = stage]

\* main.py lines 340-345: except Exception -> HTTPException(500, ...)
Failed500(req, stage) ==
    [req EXCEPT !.pc = "done", !.http = 500, !.status = "",
                !.message = "Failed to generate documentation", !.failedAt = stage]

\* How the registry stands for an id when a handler looks it up.
Standing(session_id) ==
    IF session_id \in DOMAIN session_dbs THEN "registered"
    ELSE IF session_id \in 1..uuids THEN "allocated"
    ELSE "unallocated"

\* upload_zip and get_session_info are coroutines without an await: the event
\* loop runs each to its end before it starts another.  The other handlers
\* are plain functions, run on worker threads.
LoopBusy ==
    \E s \in Slots : reqs[s].kind = "upload" /\ reqs[s].pc \notin {"idle", "done"}

ServerIdle ==
    /\ session_dbs = <<>>
    /\ uploadDirs = <<>>
    /\ extractDirs = <<>>
    /\ uuids = 0
    /\ reqs = [s \in Slots |-> IdleReq]

(***************************************************************************)
(* SpecRetry: one generateWithGemini call, attempt by attempt.             *)
(***************************************************************************)
RetryInit == NoiseIdle /\ RetryIdle /\ QuizIdle /\ SumIdle /\ ServerIdle /\ RestIdle

\* model.generate_content returns: the call returns response.text
AttemptSucceeds ==
    /\ retryPc = "attempt"
    /\ attemptsMade' = attemptsMade + 1
    /\ retryPc' = "returned"
    /\ UNCHANGED <<attemptNumber, waitsMade, totalWait>>
    /\ UNCHANGED <<noiseVars, quizVars, sumVars, serverVars, restVars>>

\* model.generate_content raises: stop, or go on to the wait
AttemptFails ==
    /\ retryPc = "attempt"
    /\ attemptsMade' = attemptsMade + 1
    /\ retryPc' = IF StopAfterAttempt(attemptNumber) THEN "raised" ELSE "wait"
    /\ UNCHANGED <<attemptNumber, waitsMade, totalWait>>
    /\ UNCHANGED <<noiseVars, quizVars, sumVars, serverVars, restVars>>

\* the sleep before the next attempt
Backoff ==
    /\ retryPc = "wait"
    /\ \E w \in WaitChoices(attemptNumber) : totalWait' = totalWait + w
    /\ waitsMade' = waitsMade + 1
    /\ attemptNumber' = attemptNumber + 1
    /\ retryPc' = "attempt"
    /\ UNCHANGED attemptsMade
    /\ UNCHANGED <<noiseVars, quizVars, sumVars, serverVars, restVars>>

RetryNext == AttemptSucceeds \/ AttemptFails \/ Backoff

SpecRetry == RetryInit /\ [][RetryNext]_vars

(***************************************************************************)
(* C2: a generateWithGemini call is attempted at most maxAttempts times;   *)
(* when every attempt fails the call ends by raising, after exactly        *)
(* maxAttempts attempts; waits happen only between attempts (never before  *)
(* the first nor after the last); and the waits sum to at most waitMax.    *)
(***************************************************************************)
C2_RetryBound ==
    /\ attemptsMade <= maxAttempts
    /\ retryPc = "raised" => attemptsMade = maxAttempts
    /\ attemptsMade = maxAttempts => retryPc \in {"returned", "raised"}
    /\ retryPc = "attempt" => waitsMade = attemptsMade
    /\ retryPc \in {"wait", "returned", "raised"} => waitsMade = attemptsMade - 1
    /\ totalWait <= waitMax

C2_Witness == retryPc = "raised" /\ attemptsMade = maxAttempts /\ totalWait > 0

(***************************************************************************)
(* SpecQuiz: the two quiz parsers applied to a raw response.               *)
(***************************************************************************)
\* n items of one shape, numbered from `from`
Run(from, n, shape) == [i \in 1..n |-> Item(from + i - 1, shape)]

\* Arrays: up to MaxItems freely shaped items, then a run of well-formed
\* ones that stops short of, at, or past the limit of main.py line 278.
Heads ==
    UNION { [1..n -> ItemShapes] : n \in 0..MaxItems }

Arrays ==
    { [i \in 1..Len(h) |-> Item(i, h[i])] \o Run(Len(h) + 1, k, FourOptions) :
        h \in Heads, k \in {0, maxMcqs - 1, maxMcqs, maxMcqs + 1} }

Bodies ==
    { <<JsonText(JArray(a))>> : a \in Arrays }
        \cup { <<JsonText(JObject)>>, <<JsonText(JScalar)>>, <<Prose>>, <<>>,
               <<Prose, JsonText(JArray(Run(1, 1, FourOptions)))>> }

Openings == { <<>>, <<Ws>>, <<Fence, LangJson, Ws>>, <<Fence, Ws>>, <<Ws, Fence, LangJson>> }
Closings == { <<>>, <<Ws>>, <<Ws, Fence>>, <<Fence, Ws>> }

RawResponses == { o \o b \o c : o \in Openings, b \in Bodies, c \in Closings }

QuizInit ==
    /\ rawResponse \in RawResponses
    /\ quizPc = "raw"
    /\ quizMcqs = JNone
    /\ NoiseIdle
    /\ RetryIdle
    /\ SumIdle
    /\ ServerIdle
    /\ RestIdle

\* generate_documentation_enhanced, lines 256-282
ParseForReport ==
    /\ quizPc = "raw"
    /\ quizMcqs' = ParseReportQuiz(rawResponse)
    /\ quizPc' = "report"
    /\ UNCHANGED rawResponse
    /\ UNCHANGED <<noiseVars, retryVars, sumVars, serverVars, restVars>>

\* generate_mcqs, lines 149-153
ParseForMcqs ==
    /\ quizPc = "raw"
    /\ quizMcqs' = ParseMcqs(rawResponse)
    /\ quizPc' = "mcqs"
    /\ UNCHANGED rawResponse
    /\ UNCHANGED <<noiseVars, retryVars, sumVars, serverVars, restVars>>

QuizNext == ParseForReport \/ ParseForMcqs

SpecQuiz == QuizInit /\ [][QuizNext]_vars

(***************************************************************************)
(* What the claims about the quiz call an item that is valid: an object    *)
(* with question, options and answer whose options is a list of at least   *)
(* two entries.                                                            *)
(***************************************************************************)
WellFormed(item) ==
    /\ item.shape.isDict
    /\ {"question", "options", "answer"} \subseteq item.shape.keys
    /\ item.shape.optionsIsList
    /\ item.shape.nOptions >= 2

\* The response is one JSON array and nothing else but whitespace.
IsPlainArray(resp) ==
    /\ Len(SelectSeq(resp, LAMBDA tok : tok # Ws)) = 1
    /\ \E i \in 1..Len(resp) : resp[i].t = "value" /\ resp[i].v.kind = "array"

ArrayItems(resp) == SelectSeq(resp, LAMBDA tok : tok # Ws)[1].v.items

WellFormedBefore(items, j) ==
    Cardinality({ k \in 1..(j - 1) : WellFormed(items[k]) })

(***************************************************************************)
(* C5: the report's quiz parser, given a response that is a JSON array,    *)
(* returns exactly the well-formed items of the array in response order,   *)
(* cut to the first maxMcqs: every returned item is a well-formed item of  *)
(* the response, the returned items keep their order, and a well-formed    *)
(* item is returned exactly when fewer than maxMcqs well-formed items come *)
(* before it (so an invalid item never costs a valid one its place).       *)
(***************************************************************************)
C5_QuizFilter ==
    (quizPc = "report" /\ IsPlainArray(rawResponse)) =>
        LET items == ArrayItems(rawResponse)
            quiz == quizMcqs.items
        IN  /\ quizMcqs.kind = "array"
            /\ Len(quiz) <= maxMcqs
            /\ \A i \in 1..Len(quiz) :
                  /\ WellFormed(quiz[i])
                  /\ \E j \in 1..Len(items) : items[j] = quiz[i]
            /\ \A i, j \in 1..Len(quiz) : i < j => quiz[i].id < quiz[j].id
            /\ \A j \in 1..Len(items) :
                  (WellFormed(items[j]) /\ WellFormedBefore(items, j) < maxMcqs)
                      => \E i \in 1..Len(quiz) : quiz[i] = items[j]

\* an array with an item of one option ahead of more than maxMcqs valid items
C5_Witness ==
    /\ quizPc = "report"
    /\ IsPlainArray(rawResponse)
    /\ LET items == ArrayItems(rawResponse)
       IN  /\ Len(items) > maxMcqs + 1
           /\ items[1].shape.nOptions = 1 /\ ~WellFormed(items[1])
           /\ items[2].shape.nOptions = 2 /\ WellFormed(items[2])
           /\ Len(quizMcqs.items) = maxMcqs
           /\ quizMcqs.items[1] = items[2]

(***************************************************************************)
(* C6: every value /generate-mcqs/ returns is a list whose items are all   *)
(* well-formed.                                                            *)
(***************************************************************************)
C6_McqsWellFormed ==
    quizPc = "mcqs" =>
        /\ quizMcqs.kind = "array"
        /\ \A i \in 1..Len(quizMcqs.items) : WellFormed(quizMcqs.items[i])

\* what stands between the fences of a response, the language tag dropped
Fenced(resp) ==
    LET s == strip(resp)
        mid == SubSeq(s, 2, Len(s) - 1)
    IN  strip(IF mid # <<>> /\ Head(mid) = LangJson THEN Tail(mid) ELSE mid)

\* a JSON array between an opening fence, tagged or not, and a closing fence
IsFencedArray(resp) ==
    LET s == strip(resp)
    IN  /\ Len(s) >= 3
        /\ s[1] = Fence
        /\ s[Len(s)] = Fence
        /\ Len(Fenced(resp)) = 1
        /\ Fenced(resp)[1].t = "value"
        /\ Fenced(resp)[1].v.kind = "array"

(***************************************************************************)
(* C18: the report's quiz parser gives, for a JSON array wrapped in code   *)
(* fences (the opening one with or without a language tag, whitespace      *)
(* around), the quiz it gives for the array alone.                         *)
(***************************************************************************)
C18_FenceTransparent ==
    (quizPc = "report" /\ IsFencedArray(rawResponse)) =>
        quizMcqs = ParseReportQuiz(Fenced(rawResponse))

(***************************************************************************)
(* SpecSummary: createSummary over a docstore, document by document.       *)
(***************************************************************************)
DocSources == { <<"src", "util.py">>, <<"lib", "util.py">>, <<"main.py">>, <<>> }

Docstores == UNION { [1..n -> { Doc(p) : p \in DocSources }] : n \in 0..MaxDocs }

SumInit ==
    /\ sumDocs \in Docstores
    /\ sumState = SummaryStart
    /\ sumPc = "loop"
    /\ NoiseIdle
    /\ RetryIdle
    /\ QuizIdle
    /\ ServerIdle
    /\ RestIdle

\* one pass of the loop: the generate task of the next document ends either way
SummarizeNext ==
    /\ sumPc = "loop"
    /\ ~sumState.raised
    /\ sumState.idx <= Len(sumDocs)
    /\ \E failures \in 0..maxAttempts :
          sumState' = SummarizeDoc(sumState, sumDocs, generateWithGemini(failures))
    /\ UNCHANGED <<sumDocs, sumPc>>
    /\ UNCHANGED <<noiseVars, retryVars, quizVars, serverVars, restVars>>

\* line 45: return summaries (or the exception of a task leaves the function)
SummaryEnds ==
    /\ sumPc = "loop"
    /\ sumState.raised \/ sumState.idx > Len(sumDocs)
    /\ sumPc' = IF sumState.raised THEN "raised" ELSE "returned"
    /\ UNCHANGED <<sumDocs, sumState>>
    /\ UNCHANGED <<noiseVars, retryVars, quizVars, serverVars, restVars>>

SumNext == SummarizeNext \/ SummaryEnds

SpecSummary == SumInit /\ [][SumNext]_vars

C17_FixedDelay ==
    \A i \in 1..Len(sumState.delays) :
        i < Len(sumDocs) => sumState.delays[i] = sleepSeconds

(***************************************************************************)
(* C22: the map createSummary returns is keyed by source file: two         *)
(* different source files whose documents were summarised have two         *)
(* separate entries, and the entry found for a file is a summary of a      *)
(* document of that file.                                                  *)
(***************************************************************************)
C22_KeyedByIdentity ==
    sumPc = "returned" =>
        LET ok == { i \in 1..Len(sumDocs) : sumState.outcomes[i] = "ok" }
            key(i) == Filename(sumDocs[i], i)
        IN  \A i \in ok :
              /\ \A j \in ok :
                    sumDocs[i].source # sumDocs[j].source => key(i) # key(j)
              /\ key(i) \in DOMAIN sumState.summaries
              /\ sumDocs[sumState.summaries[key(i)]].source = sumDocs[i].source

(***************************************************************************)
(* SpecNoise: unzipAndClean called on one target path.                     *)
(***************************************************************************)
PriorTrees ==
    { NoDir, DirOf({}), DirOf({ File(<<"old.py">>) }),
      DirOf({ Dir(<<"src">>), File(<<"src", "old.py">>) }) }

NoiseInit ==
    /\ extractTo \in PriorTrees
    /\ normArchive = Zip({})
    /\ normResult = "none"
    /\ normRuns = 0
    /\ normRepeat = FALSE
    /\ RetryIdle
    /\ QuizIdle
    /\ SumIdle
    /\ ServerIdle
    /\ RestIdle

Normalize(a) ==
    /\ normRuns < MaxRuns
    /\ LET r == unzipAndClean(a, extractTo)
       IN  /\ extractTo' = r.at
           /\ normResult' = IF r.raised THEN "error" ELSE "ok"
    /\ normArchive' = a
    /\ normRuns' = normRuns + 1
    /\ normRepeat' = (normRuns > 0 /\ a = normArchive)
    /\ UNCHANGED <<retryVars, quizVars, sumVars, serverVars, restVars>>

NoiseNext == \E a \in Archives \cup {CorruptArchive} : Normalize(a)

SpecNoise == NoiseInit /\ [][NoiseNext]_vars

(***************************************************************************)
(* C1: after unzipAndClean completes, no directory of the tree is named in *)
(* noiseDirs, no file is named by an entry of noiseFiles, no file name     *)
(* ends with an entry of extensionsToDelete, and no file name starts with  *)
(* a dot.                                                                  *)
(***************************************************************************)
C1_NoiseFree ==
    normResult = "ok" =>
        \A e \in extractTo.entries :
            /\ e.kind = "dir" => Name(e) \notin noiseDirs
            /\ e.kind = "file" =>
                /\ Name(e) \notin noiseFiles
                /\ \A ext \in extensionsToDelete : ~EndsWith(Name(e), ext)
                /\ ~StartsWithDot(Name(e))

(***************************************************************************)
(* C15: a second unzipAndClean with the same archive on the same target    *)
(* leaves the tree and the outcome of the first; after any call the target *)
(* holds nothing that is not of the call's archive, whatever was there     *)
(* before it.                                                              *)
(***************************************************************************)
C15_Idempotent ==
    /\ [](normRuns > 0 => extractTo.entries \subseteq extractall(normArchive))
    /\ [][(normRuns > 0 /\ normArchive' = normArchive) =>
            (extractTo' = extractTo /\ normResult' = normResult)]_vars

\* the same archive twice, with a file left of it
C15_Witness ==
    /\ normRepeat
    /\ normRuns = MaxRuns
    /\ normResult = "ok"
    /\ extractTo.entries # {}

(***************************************************************************)
(* C21: after stripNoise no directory below the root is named in noiseDirs *)
(* at any depth, and nothing of the archive that lay inside such a         *)
(* directory is left, whether or not it matches a noise rule itself.       *)
(***************************************************************************)
\* the directories an entry lies in, and the entry itself when a directory
DirNames(e) ==
    { e.path[i] : i \in 1..(IF e.kind = "dir" THEN Len(e.path) ELSE Len(e.path) - 1) }

InsideNoiseDir(e) ==
    \E i \in 1..(Len(e.path) - 1) : e.path[i] \in noiseDirs

C21_PruningDeep ==
    normResult = "ok" =>
        /\ \A e \in extractTo.entries : DirNames(e) \cap noiseDirs = {}
        /\ \A e \in extractall(normArchive) :
              InsideNoiseDir(e) => e \notin extractTo.entries

\* a noise directory two levels down, holding a plain directory and file
C21_Witness ==
    /\ normResult = "ok"
    /\ File(<<"lib", "tests", "sub", "keep.py">>) \in normArchive.members
    /\ File(<<"lib", "util.py">>) \in extractTo.entries
    /\ Dir(<<"lib", "tests">>) \notin extractTo.entries

(***************************************************************************)
(* C29: the tree unzipAndClean leaves holds no requirements.txt,           *)
(* package.json or pyproject.toml and no file whose name starts with a     *)
(* dot, at any depth; so of the manifests the analysis looks for at the    *)
(* top of the tree only a Pipfile can be there, and none of the env files  *)
(* it looks for.                                                           *)
(***************************************************************************)
\* pdf_generator.py line 474
env_files == { ".env", ".env.example", ".env.local", ".env.production" }

\* the files of `names` that os.path.exists finds at the top of the tree
ExistsAtTop(t, names) == { n \in names : File(<<n>>) \in t }

C29_NoManifestsLeft ==
    normResult = "ok" =>
        /\ \A e \in extractTo.entries :
              e.kind = "file" =>
                  /\ Name(e) \notin {"requirements.txt", "package.json", "pyproject.toml"}
                  /\ ~StartsWithDot(Name(e))
        /\ ExistsAtTop(extractTo.entries, requirements_files \cup {"package.json"})
              \subseteq {"Pipfile"}
        /\ ExistsAtTop(extractTo.entries, env_files) = {}

\* an archive of a Pipfile and one more manifest: the Pipfile is what is left
C29_Witness ==
    /\ normResult = "ok"
    /\ normArchive.members \cap
          { File(<<"requirements.txt">>), File(<<"package.json">>),
            File(<<"pyproject.toml">>), File(<<".env">>) } # {}
    /\ ExistsAtTop(extractTo.entries, requirements_files) = {"Pipfile"}

Init == ServerIdle /\ NoiseIdle /\ RetryIdle /\ QuizIdle /\ SumIdle /\ RestIdle

Others == UNCHANGED <<noiseVars, retryVars, quizVars, sumVars, restVars>>

\* A request arrives in the next free slot and its handler starts.
Arrives(s) ==
    /\ reqs[s].pc = "idle"
    /\ \A q \in Slots : q < s => reqs[q].pc # "idle"

\* The ids a client may send: one no upload was ever given, or one in use.
Sendable == {0} \cup 1..uuids

Started(kind, sid) == [IdleReq EXCEPT !.kind = kind, !.sid = sid]

(***************************************************************************)
(* upload_zip, main.py lines 94-114                                        *)
(***************************************************************************)
\* lines 96-101: a fresh id, its two directories, the archive saved
UploadSave(s) ==
    /\ Arrives(s)
    /\ ~LoopBusy
    /\ uuids < MaxSessions
    /\ \E archive \in UploadArchives :
          LET session_id == uuids + 1
          IN  /\ uuids' = session_id
              /\ uploadDirs' = Put(uploadDirs, session_id, {ZipFile(session_id)})
              /\ extractDirs' = MkExtractDir(extractDirs, session_id)
              /\ reqs' = [reqs EXCEPT ![s] =
                            [Started("upload", session_id) EXCEPT
                                !.archive = archive, !.pc = "unzip"]]
    /\ UNCHANGED session_dbs
    /\ Others

\* line 103: unzipAndClean(zip_path, extractTo=extract_dir)
UploadUnzip(s) ==
    /\ reqs[s].kind = "upload" /\ reqs[s].pc = "unzip"
    /\ LET r == unzipAndClean(reqs[s].archive, extractDirs[reqs[s].sid])
       IN  /\ extractDirs' = [extractDirs EXCEPT ![reqs[s].sid] = r.at]
           /\ reqs' = [reqs EXCEPT ![s] =
                         IF r.raised THEN Uncaught(@, "unzip")
                         ELSE [@ EXCEPT !.pc = "ingest"]]
    /\ UNCHANGED <<session_dbs, uploadDirs, uuids>>
    /\ Others

\* lines 104-114: load, chunk, embed, register, answer
UploadIngest(s) ==
    /\ reqs[s].kind = "upload" /\ reqs[s].pc = "ingest"
    /\ \E serviceUp \in BOOLEAN :
          LET docs == loadDocs(extractDirs[reqs[s].sid].entries)
              chunks == chunkDocs(docs)
              stored == embedAndStore(chunks, serviceUp)
          IN  IF stored.raised
              THEN /\ reqs' = [reqs EXCEPT ![s] = Uncaught(@, "embed")]
                   /\ UNCHANGED session_dbs
              ELSE /\ session_dbs' = Register(session_dbs, reqs[s].sid, stored.db)
                   /\ reqs' = [reqs EXCEPT ![s] =
                                 [@ EXCEPT !.pc = "done", !.http = 200,
                                           !.status = "success",
                                           !.message = "Project uploaded and analyzed successfully.",
                                           !.files_processed = Len(docs),
                                           !.chunks = chunks]]
    /\ UNCHANGED <<uploadDirs, extractDirs, uuids>>
    /\ Others

(***************************************************************************)
(* get_session_info, main.py lines 347-367                                 *)
(***************************************************************************)
SessionInfo(s) ==
    /\ Arrives(s)
    /\ ~LoopBusy
    /\ \E sid \in Sendable :
        IF ~SessionKnown(session_dbs, sid)
        THEN /\ reqs' = [reqs EXCEPT ![s] =
                          [Started("info", sid) EXCEPT
                              !.pc = "done", !.http = 200, !.status = "error",
                              !.message = "Session not found",
                              !.lookup = Standing(sid)]]
             /\ UNCHANGED <<uploadDirs, extractDirs>>
        ELSE /\ uploadDirs' = MkUploadDir(uploadDirs, sid)
             /\ extractDirs' = MkExtractDir(extractDirs, sid)
             /\ reqs' = [reqs EXCEPT ![s] =
                          [Started("info", sid) EXCEPT
                              !.pc = "done", !.http = 200, !.status = "success",
                              !.ready = TRUE,
                              !.lookup = Standing(sid)]]
    /\ UNCHANGED <<session_dbs, uuids>>
    /\ Others

(***************************************************************************)
(* generate_summary, main.py lines 116-123                                 *)
(***************************************************************************)
InvalidSession(req) ==
    [req EXCEPT !.pc = "done", !.http = 200, !.status = "error",
                !.message = "Invalid session ID or no documents loaded. Upload a zip file first."]

\* The service during one createSummary call: up throughout, or down
\* throughout (every attempt for every document fails).
FailurePatterns(db) == { [i \in 1..Len(db) |-> f] : f \in {0, maxAttempts} }

GenerateSummary(s) ==
    /\ Arrives(s)
    /\ \E sid \in Sendable :
        IF ~SessionKnown(session_dbs, sid)
        THEN reqs' = [reqs EXCEPT ![s] =
                        [InvalidSession(Started("summary", sid)) EXCEPT
                            !.lookup = Standing(sid)]]
        ELSE \E failures \in FailurePatterns(session_dbs[sid]) :
               LET db == session_dbs[sid]
                   st == createSummary(db, failures)
               IN  reqs' = [reqs EXCEPT ![s] =
                      IF st.raised
                      THEN [Uncaught(Started("summary", sid), "summaries") EXCEPT
                               !.lookup = "registered"]
                      ELSE [Started("summary", sid) EXCEPT
                               !.pc = "done", !.http = 200, !.status = "success",
                               !.lookup = "registered",
                               !.ran = {"summaries"},
                               !.genCalls = Len(db),
                               !.summaries = st.summaries]]
    /\ UNCHANGED <<session_dbs, uploadDirs, extractDirs, uuids>>
    /\ Others

(***************************************************************************)
(* ask_question, main.py lines 125-136                                     *)
(***************************************************************************)
AskQuestion(s) ==
    /\ Arrives(s)
    /\ \E sid \in Sendable :
        IF ~SessionKnown(session_dbs, sid)
        THEN reqs' = [reqs EXCEPT ![s] =
                        [InvalidSession(Started("ask", sid)) EXCEPT
                            !.lookup = Standing(sid)]]
        ELSE \E failures \in {0, maxAttempts} :
               LET gen == generateWithGemini(failures)
               IN  reqs' = [reqs EXCEPT ![s] =
                      IF gen.raised
                      THEN [Uncaught(Started("ask", sid), "answer") EXCEPT
                               !.lookup = "registered", !.genCalls = 1,
                               !.ran = {"answer"}]
                      ELSE [Started("ask", sid) EXCEPT
                               !.pc = "done", !.http = 200, !.status = "success",
                               !.lookup = "registered",
                               !.ran = {"answer"}, !.genCalls = 1]]
    /\ UNCHANGED <<session_dbs, uploadDirs, extractDirs, uuids>>
    /\ Others

(***************************************************************************)
(* generate_mcqs, main.py lines 138-155                                    *)
(***************************************************************************)
GenerateMcqs(s) ==
    /\ Arrives(s)
    /\ \E sid \in Sendable :
        IF ~SessionKnown(session_dbs, sid)
        THEN reqs' = [reqs EXCEPT ![s] =
                        [InvalidSession(Started("mcqs", sid)) EXCEPT
                            !.lookup = Standing(sid)]]
        ELSE \E failures \in {0, maxAttempts}, mcq_json \in QuizResponses :
               LET gen == generateWithGemini(failures)
               IN  reqs' = [reqs EXCEPT ![s] =
                      IF gen.raised
                      THEN [Uncaught(Started("mcqs", sid), "quiz") EXCEPT
                               !.lookup = "registered", !.genCalls = 1, !.ran = {"quiz"}]
                      ELSE [Started("mcqs", sid) EXCEPT
                               !.pc = "done", !.http = 200, !.status = "success",
                               !.lookup = "registered",
                               !.ran = {"quiz"}, !.genCalls = 1,
                               !.resp = mcq_json,
                               !.mcqs = ParseMcqs(mcq_json)]]
    /\ UNCHANGED <<session_dbs, uploadDirs, extractDirs, uuids>>
    /\ Others

(***************************************************************************)
(* generate_documentation_enhanced, main.py lines 165-345                  *)
(***************************************************************************)
\* lines 171-174: raise HTTPException(status_code=404, detail=...)
ReportNotFoundAsError(req) == InvalidSession(req)

ReportNotFound(req) ==
    [req EXCEPT !.pc = "done", !.http = 404, !.status = "",
                !.message = "Invalid session ID or no documents loaded. Upload a zip file first."]

\* lines 169-177: the registry lookup; 404 for an id that is not there
ReportLookup(s) ==
    /\ Arrives(s)
    /\ \E sid \in Sendable :
        IF ~SessionKnown(session_dbs, sid)
        THEN /\ reqs' = [reqs EXCEPT ![s] =
                          [ReportNotFound(Started("report", sid)) EXCEPT
                              !.lookup = Standing(sid)]]
             /\ UNCHANGED <<uploadDirs, extractDirs>>
        ELSE /\ uploadDirs' = MkUploadDir(uploadDirs, sid)
             /\ extractDirs' = MkExtractDir(extractDirs, sid)
             /\ reqs' = [reqs EXCEPT ![s] =
                          [Started("report", sid) EXCEPT
                              !.pc = "summaries", !.lookup = "registered"]]
    /\ UNCHANGED <<session_dbs, uuids>>
    /\ Others

\* lines 183-192: createSummary(db)
ReportSummaries(s) ==
    /\ reqs[s].kind = "report" /\ reqs[s].pc = "summaries"
    /\ \E failures \in FailurePatterns(session_dbs[reqs[s].sid]) :
          LET db == session_dbs[reqs[s].sid]
              st == createSummary(db, failures)
          IN  reqs' = [reqs EXCEPT ![s] =
                 IF st.raised
                 THEN [Failed500(@, "summaries") EXCEPT !.ran = {"summaries"}]
                 ELSE [@ EXCEPT !.pc = "narrative",
                                !.ran = @ \cup {"summaries"},
                                !.genCalls = @ + Len(db),
                                !.summaries = st.summaries]]
    /\ UNCHANGED <<session_dbs, uploadDirs, extractDirs, uuids>>
    /\ Others

\* lines 196-228: the narrative call; its exception reaches line 340
AfterNarrativeSwallowed(req, gen) ==
    [req EXCEPT !.pc = "quiz",
                !.ran = @ \cup {"narrative"},
                !.genCalls = @ + 1,
                !.narrative = IF gen.raised THEN "exhausted" ELSE "ok"]

AfterNarrative(req, gen) ==
    IF gen.raised
    THEN [Failed500(req, "narrative") EXCEPT !.ran = @ \cup {"narrative"},
                                            !.genCalls = @ + 1,
                                            !.narrative = "exhausted"]
    ELSE [req EXCEPT !.pc = "quiz",
                     !.ran = @ \cup {"narrative"},
                     !.genCalls = @ + 1,
                     !.narrative = "ok"]

ReportNarrative(s) ==
    /\ reqs[s].kind = "report" /\ reqs[s].pc = "narrative"
    /\ \E failures \in {0, maxAttempts} :
          reqs' = [reqs EXCEPT ![s] = AfterNarrative(@, generateWithGemini(failures))]
    /\ UNCHANGED <<session_dbs, uploadDirs, extractDirs, uuids>>
    /\ Others

\* lines 253-282: the quiz call and its parse, inside their own try
AfterQuizFatal(req, gen, mcq_response) ==
    IF gen.raised \/ json_loads(mcq_response).raised
    THEN [Failed500(req, "quiz") EXCEPT !.ran = @ \cup {"quiz"}, !.genCalls = @ + 1,
                                       !.resp = IF gen.raised THEN <<>> ELSE mcq_response]
    ELSE [req EXCEPT !.pc = "assemble",
                     !.ran = @ \cup {"quiz"},
                     !.genCalls = @ + 1,
                     !.resp = mcq_response,
                     !.mcqs = ParseReportQuiz(mcq_response)]

\* a quiz call that is waited for without end once it has failed
AfterQuizHangs(req, gen, mcq_response) ==
    IF gen.raised
    THEN [req EXCEPT !.pc = "waiting", !.ran = @ \cup {"quiz"}, !.genCalls = @ + 1]
    ELSE [req EXCEPT !.pc = "assemble",
                     !.ran = @ \cup {"quiz"},
                     !.genCalls = @ + 1,
                     !.resp = mcq_response,
                     !.mcqs = ParseReportQuiz(mcq_response)]

AfterQuiz(req, gen, mcq_response) ==
    [req EXCEPT !.pc = "assemble",
                !.ran = @ \cup {"quiz"},
                !.genCalls = @ + 1,
                !.resp = IF gen.raised THEN <<>> ELSE mcq_response,
                !.mcqs = IF gen.raised THEN JArray(<<>>)
                         ELSE ParseReportQuiz(mcq_response)]

ReportQuiz(s) ==
    /\ reqs[s].kind = "report" /\ reqs[s].pc = "quiz"
    /\ \E failures \in {0, maxAttempts}, mcq_response \in QuizResponses :
          reqs' = [reqs EXCEPT ![s] =
                     AfterQuiz(@, generateWithGemini(failures), mcq_response)]
    /\ UNCHANGED <<session_dbs, uploadDirs, extractDirs, uuids>>
    /\ Others

\* lines 284-319 and pdf_generator.py lines 867-872: logo, title, and the
\* analysis of the tree; an exception of the analysis reaches line 340
ReportAnalyze(s) ==
    /\ reqs[s].kind = "report" /\ reqs[s].pc = "assemble"
    /\ \E analysed \in BOOLEAN :
          reqs' = [reqs EXCEPT ![s] =
                     IF analysed
                     THEN [@ EXCEPT !.pc = "render", !.ran = @ \cup {"analyzer"}]
                     ELSE [Failed500(@, "analyzer") EXCEPT !.ran = @ \cup {"analyzer"}]]
    /\ UNCHANGED <<session_dbs, uploadDirs, extractDirs, uuids>>
    /\ Others

\* a lock on the session's artifact: a request waits while a request of a
\* lower slot for the same session is writing
AtRenderLocked(s) ==
    /\ reqs[s].kind = "report" /\ reqs[s].pc = "render"
    /\ \A t \in Slots :
          (t < s /\ reqs[t].kind = "report" /\ reqs[t].pc = "render") =>
              reqs[t].sid # reqs[s].sid

\* main.py lines 312-326: the handler goes from the path to the write with
\* nothing taken or waited for in between
AtRender(s) == reqs[s].kind = "report" /\ reqs[s].pc = "render"

\* pdf_generator.py lines 709-854 and main.py lines 331-338: the story is
\* built (the quiz section only for a non-empty quiz, line 840), doc.build
\* writes the file, and the file is returned; reportlab raising reaches
\* line 340
ReportRender(s) ==
    /\ AtRender(s)
    /\ \E rendered \in BOOLEAN :
          IF rendered
          THEN /\ uploadDirs' = [uploadDirs EXCEPT ![reqs[s].sid] =
                                    @ \cup {PdfFile(reqs[s].sid)}]
               /\ reqs' = [reqs EXCEPT ![s] =
                             [@ EXCEPT !.pc = "done", !.http = 200,
                                       !.ran = @ \cup {"assembler"},
                                       !.doc = [built |-> TRUE,
                                                quizSection |-> reqs[s].mcqs.items # <<>>]]]
          ELSE /\ reqs' = [reqs EXCEPT ![s] =
                             [Failed500(@, "assembler") EXCEPT !.ran = @ \cup {"assembler"}]]
               /\ UNCHANGED uploadDirs
    /\ UNCHANGED <<session_dbs, extractDirs, uuids>>
    /\ Others

Next ==
    \E s \in Slots :
        \/ UploadSave(s)
        \/ UploadUnzip(s)
        \/ UploadIngest(s)
        \/ SessionInfo(s)
        \/ GenerateSummary(s)
        \/ AskQuestion(s)
        \/ GenerateMcqs(s)
        \/ ReportLookup(s)
        \/ ReportSummaries(s)
        \/ ReportNarrative(s)
        \/ ReportQuiz(s)
        \/ ReportAnalyze(s)
        \/ ReportRender(s)

Spec == Init /\ [][Next]_vars

\* the registry entry, the upload directory or the extract directory of id
\* is not after the step what it was before it
Touched(id) ==
    \/ (id \in DOMAIN session_dbs) # (id \in DOMAIN session_dbs')
    \/ (id \in DOMAIN uploadDirs) # (id \in DOMAIN uploadDirs')
    \/ (id \in DOMAIN extractDirs) # (id \in DOMAIN extractDirs')
    \/ (id \in DOMAIN session_dbs /\ id \in DOMAIN session_dbs'
            /\ session_dbs[id] # session_dbs'[id])
    \/ (id \in DOMAIN uploadDirs /\ id \in DOMAIN uploadDirs'
            /\ uploadDirs[id] # uploadDirs'[id])
    \/ (id \in DOMAIN extractDirs /\ id \in DOMAIN extractDirs'
            /\ extractDirs[id] # extractDirs'[id])

FilenamesOf(db) == { Filename(db[i], i) : i \in 1..Len(db) }

(***************************************************************************)
(* C20: two uploads never have the same session id; every file of a        *)
(* session's upload directory carries that session's id; a registered      *)
(* knowledge base is the chunks of that session's own tree; the summaries  *)
(* a request holds are of files of its own session's knowledge base; and   *)
(* a step changes the registry entry or a directory of an id only when the *)
(* request taking the step is a request for that id.                       *)
(***************************************************************************)
C20_SessionsIsolated ==
    /\ [](/\ \A s, t \in Slots :
              (s # t /\ reqs[s].kind = "upload" /\ reqs[t].kind = "upload") =>
                  reqs[s].sid # reqs[t].sid
          /\ \A id \in DOMAIN uploadDirs : \A f \in uploadDirs[id] : f.session = id
          /\ \A id \in DOMAIN session_dbs :
                session_dbs[id] = chunkDocs(loadDocs(extractDirs[id].entries))
          /\ \A s \in Slots :
                reqs[s].summaries # <<>> =>
                    DOMAIN reqs[s].summaries
                        \subseteq FilenamesOf(session_dbs[reqs[s].sid]))
    /\ [][\A id \in 1..MaxSessions :
            Touched(id) =>
                \E s \in Slots : reqs'[s] # reqs[s] /\ reqs'[s].sid = id]_vars

\* two registered sessions with different projects, and a report built
\* for one of them from summaries of its own files
C20_Witness ==
    \E s \in Slots : \E id \in DOMAIN session_dbs :
        /\ reqs[s].kind = "report" /\ reqs[s].doc.built
        /\ reqs[s].summaries # <<>>
        /\ reqs[s].sid # id
        /\ session_dbs[reqs[s].sid] # session_dbs[id]
        /\ PdfFile(reqs[s].sid) \in uploadDirs[reqs[s].sid]

(***************************************************************************)
(* C24: report requests for one session are not kept apart: a request at   *)
(* the writing step can always take it, whatever the other requests for    *)
(* its session are doing; and the file written is the one file             *)
(* comprehensive_documentation_<id>.pdf of data/<id>, the same for every   *)
(* request of the session.                                                 *)
(***************************************************************************)
PdfsOf(id) == { f \in uploadDirs[id] : f.kind = "pdf" }

C24_NoMutualExclusion ==
    /\ \A s \in Slots :
          (reqs[s].kind = "report" /\ reqs[s].pc = "render") =>
              ENABLED ReportRender(s)
    /\ \A s \in Slots :
          (reqs[s].kind = "report" /\ reqs[s].doc.built) =>
              PdfsOf(reqs[s].sid) = { PdfFile(reqs[s].sid) }
    /\ \A id \in DOMAIN uploadDirs : PdfsOf(id) \subseteq { PdfFile(id) }

\* two requests for one session at the writing step together
C24_Witness ==
    \E s, t \in Slots :
        /\ s < t
        /\ reqs[s].kind = "report" /\ reqs[s].pc = "render"
        /\ reqs[t].kind = "report" /\ reqs[t].pc = "render"
        /\ reqs[s].sid = reqs[t].sid

(***************************************************************************)
(* C25: a registered session stays registered with the knowledge base its  *)
(* upload built: no step removes an id from session_dbs or changes what it *)
(* maps to, and the entry is at all times the chunks its upload answered   *)
(* with.                                                                   *)
(***************************************************************************)
C25_RegistryPermanent ==
    /\ [][\A id \in DOMAIN session_dbs :
            id \in DOMAIN session_dbs' /\ session_dbs'[id] = session_dbs[id]]_vars
    /\ [](\A id \in DOMAIN session_dbs :
            \E s \in Slots :
                /\ reqs[s].kind = "upload" /\ reqs[s].sid = id
                /\ reqs[s].pc = "done"
                /\ session_dbs[id] = reqs[s].chunks)

\* a second session registered, and a report written for one of the two
C25_Witness ==
    /\ Cardinality(DOMAIN session_dbs) = 2
    /\ \E s \in Slots :
          /\ reqs[s].kind = "report" /\ reqs[s].pc = "done"
          /\ reqs[s].http = 200

(***************************************************************************)
(* C26: once a session is registered, no step creates, changes or removes  *)
(* anything under extracted/<id>; the only file a later step writes is the *)
(* session's report, into data/<id>.                                       *)
(***************************************************************************)
C26_TreeReadOnly ==
    /\ [][\A id \in DOMAIN session_dbs : extractDirs'[id] = extractDirs[id]]_vars
    /\ [][\A id \in DOMAIN session_dbs :
            uploadDirs'[id] # uploadDirs[id] =>
                /\ uploadDirs'[id] = uploadDirs[id] \cup { PdfFile(id) }
                /\ \E s \in Slots :
                      /\ reqs[s].kind = "report" /\ reqs[s].sid = id
                      /\ reqs[s].pc = "render" /\ reqs'[s].doc.built]_vars

\* a session-info and a built report for a session whose tree holds files
C26_Witness ==
    \E s, t \in Slots :
        /\ reqs[s].kind = "info" /\ reqs[s].ready
        /\ reqs[t].kind = "report" /\ reqs[t].doc.built
        /\ reqs[t].sid = reqs[s].sid
        /\ extractDirs[reqs[s].sid].entries # {}

(***************************************************************************)
(* C28: an id is in session_dbs only when its upload has extracted and     *)
(* stripped its archive, loaded and chunked the documents and built the    *)
(* knowledge base; an upload that has not got that far, or failed, has     *)
(* left session_dbs as it was; so a request that found a session           *)
(* registered found it ready.                                              *)
(***************************************************************************)
Ready(id) ==
    \E s \in Slots :
        /\ reqs[s].kind = "upload" /\ reqs[s].sid = id
        /\ reqs[s].pc = "done" /\ reqs[s].http = 200
        /\ extractDirs[id].exists
        /\ extractDirs[id].entries = stripNoise(extractall(reqs[s].archive))
        /\ session_dbs[id] # <<>>
        /\ session_dbs[id] = chunkDocs(loadDocs(extractDirs[id].entries))

C28_RegisteredIsReady ==
    /\ [](\A id \in DOMAIN session_dbs : Ready(id))
    /\ [](\A s \in Slots :
            (reqs[s].kind = "upload" /\ (reqs[s].pc # "done" \/ reqs[s].http # 200)) =>
                reqs[s].sid \notin DOMAIN session_dbs)
    /\ [](\A s \in Slots :
            reqs[s].lookup = "registered" => Ready(reqs[s].sid))
    /\ [][\A s \in Slots :
            (reqs'[s].kind = "upload" /\ reqs'[s] # reqs[s] /\ reqs'[s].http # 200) =>
                session_dbs' = session_dbs]_vars

\* a request that came while the upload was at work and found nothing, one
\* that came after it and found the session
C28_Witness ==
    \E s, t, u \in Slots :
        /\ reqs[s].kind = "upload" /\ reqs[s].pc = "done" /\ reqs[s].http = 200
        /\ reqs[t].sid = reqs[s].sid /\ reqs[t].lookup = "allocated"
        /\ reqs[u].sid = reqs[s].sid /\ reqs[u].lookup = "registered"

(***************************************************************************)
(* SpecLive: the server with its worker threads scheduled: while report    *)
(* requests have a step to take, one of them is taken.  (Each request has  *)
(* a thread of its own, which gives this for every request by itself; the  *)
(* requests being finitely many, the weaker condition is enough.)          *)
(***************************************************************************)
ReportStep(s) ==
    \/ ReportSummaries(s)
    \/ ReportNarrative(s)
    \/ ReportQuiz(s)
    \/ ReportAnalyze(s)
    \/ ReportRender(s)

SpecLive == Spec /\ WF_vars(\E s \in Slots : ReportStep(s))

(***************************************************************************)
(* C30: every report request for a registered session ends, with a         *)
(* document or with an error, also when every generation call fails (from  *)
(* some point on, all such requests have ended, for good); a generate      *)
(* task makes at most maxAttempts attempts; the request makes one task for *)
(* each stored chunk, then one for the narrative, then one for the quiz.   *)
(***************************************************************************)
C30_ReportTerminates ==
    /\ [](\A failures \in 0..(maxAttempts + 2) :
            generateWithGemini(failures).attempts <= maxAttempts)
    /\ [](\A s \in Slots :
            (reqs[s].kind = "report" /\ reqs[s].lookup = "registered") =>
                LET n == Len(session_dbs[reqs[s].sid])
                IN  /\ reqs[s].pc = "summaries" => reqs[s].genCalls = 0
                    /\ reqs[s].pc = "narrative" => reqs[s].genCalls = n
                    /\ reqs[s].pc = "quiz" => reqs[s].genCalls = n + 1
                    /\ reqs[s].pc \in {"assemble", "render"} =>
                          reqs[s].genCalls = n + 2
                    /\ reqs[s].genCalls <= n + 2)
    /\ <>[](\A s \in Slots :
              (reqs[s].kind = "report" /\ reqs[s].lookup = "registered") =>
                  /\ reqs[s].pc = "done"
                  /\ reqs[s].doc.built \/ reqs[s].http = 500)

\* the service down throughout: no summary, the narrative call exhausted,
\* the request ended
C30_Witness ==
    \E s \in Slots :
        /\ reqs[s].kind = "report" /\ reqs[s].pc = "done"
        /\ reqs[s].lookup = "registered"
        /\ reqs[s].summaries = <<>>
        /\ reqs[s].failedAt = "narrative"
        /\ reqs[s].genCalls = Len(session_dbs[reqs[s].sid]) + 1

(***************************************************************************)
(* C16: an upload whose archive is corrupt, or is over the size cap, fails *)
(* at extraction: once past the unzip step the request has ended with an   *)
(* error raised there, and its session id is not in session_dbs.           *)
(***************************************************************************)
C16_ExtractionFatal ==
    \A s \in Slots :
        (/\ reqs[s].kind = "upload"
         /\ reqs[s].archive.corrupt \/ reqs[s].archive.oversize
         /\ reqs[s].pc # "unzip") =>
            /\ reqs[s].pc = "done"
            /\ reqs[s].http = 500
            /\ reqs[s].failedAt = "unzip"
            /\ reqs[s].sid \notin DOMAIN session_dbs

(***************************************************************************)
(* C4: a report request whose narrative call exhausted its retries has     *)
(* ended with status 500 and the message of line 344, its quiz, analyzer   *)
(* and assembler steps have not run, it holds no quiz and it has written   *)
(* and returned no document, whatever its per-file summaries were.         *)
(***************************************************************************)
C4_NarrativeFatal ==
    \A s \in Slots :
        (reqs[s].kind = "report" /\ reqs[s].narrative = "exhausted") =>
            /\ reqs[s].pc = "done"
            /\ reqs[s].http = 500
            /\ reqs[s].message = "Failed to generate documentation"
            /\ reqs[s].ran \cap {"quiz", "analyzer", "assembler"} = {}
            /\ reqs[s].mcqs = JNone
            /\ reqs[s].doc = NoDoc

\* the narrative fails after the per-file summaries succeeded
C4_Witness ==
    \E s \in Slots :
        /\ reqs[s].kind = "report" /\ reqs[s].pc = "done"
        /\ reqs[s].narrative = "exhausted"
        /\ reqs[s].summaries # <<>>
        /\ reqs[s].http = 500

\* the text parses neither as it is nor after the cleaning of lines 256-260
Unparseable(resp) ==
    /\ resp # <<>>
    /\ json_loads(resp).raised
    /\ LET s1 == strip(resp)
           s2 == IF StartsWithJsonFence(s1) THEN DropJsonFence(s1) ELSE s1
           s3 == IF EndsWithFence(s2) THEN DropEndFence(s2) ELSE s2
       IN  json_loads(s3).raised

(***************************************************************************)
(* C7: when the quiz response cannot be parsed, the quiz is the empty      *)
(* list; generate_mcqs answers success with it; the report request goes on *)
(* to assembly, never fails at the quiz step, and the document it returns  *)
(* is built and has no quiz section.                                       *)
(***************************************************************************)
C7_UnparseableQuizEmpty ==
    \A s \in Slots :
        Unparseable(reqs[s].resp) =>
            /\ reqs[s].mcqs = JArray(<<>>)
            /\ reqs[s].kind = "mcqs" =>
                  /\ reqs[s].pc = "done"
                  /\ reqs[s].http = 200
                  /\ reqs[s].status = "success"
            /\ reqs[s].kind = "report" =>
                  /\ reqs[s].pc \in {"assemble", "render", "done"}
                  /\ reqs[s].failedAt \in {"", "analyzer", "assembler"}
                  /\ (reqs[s].pc = "done" /\ reqs[s].failedAt = "") =>
                        /\ reqs[s].http = 200
                        /\ reqs[s].doc.built
                        /\ ~reqs[s].doc.quizSection

\* both handlers have met a response that is prose
C7_Witness ==
    \E s, t \in Slots :
        /\ reqs[s].kind = "mcqs" /\ reqs[s].pc = "done"
        /\ Unparseable(reqs[s].resp)
        /\ reqs[s].status = "success"
        /\ reqs[t].kind = "report" /\ reqs[t].pc = "done"
        /\ Unparseable(reqs[t].resp)
        /\ reqs[t].doc.built /\ ~reqs[t].doc.quizSection

(***************************************************************************)
(* C8: a report request for an id that is not in session_dbs ends at once  *)
(* with status 404, having made no generation call and run no stage, with  *)
(* no document; the step creates no directory and no file and leaves the   *)
(* registry as it was; the ended request never changes afterwards.         *)
(***************************************************************************)
C8_UnknownSessionReport ==
    [][\A s \in Slots :
          /\ (/\ reqs[s].pc = "idle"
              /\ reqs'[s].kind = "report"
              /\ reqs'[s].sid \notin DOMAIN session_dbs) =>
                /\ reqs'[s].pc = "done"
                /\ reqs'[s].http = 404
                /\ reqs'[s].genCalls = 0
                /\ reqs'[s].ran = {}
                /\ reqs'[s].doc = NoDoc
                /\ UNCHANGED <<session_dbs, uploadDirs, extractDirs>>
          /\ (reqs[s].pc = "done" /\ reqs[s].http = 404) => reqs'[s] = reqs[s]
      ]_vars

\* a report request for an id whose upload did not register it, answered
\* while a session is registered
C8_Witness ==
    \E s \in Slots :
        /\ reqs[s].kind = "report" /\ reqs[s].pc = "done"
        /\ reqs[s].http = 404
        /\ reqs[s].sid \notin DOMAIN session_dbs
        /\ session_dbs # <<>>

\* why a report request failed
Cause(req) ==
    IF req.lookup = "unallocated" THEN "no such session"
    ELSE IF req.lookup = "allocated" THEN "no project loaded"
    ELSE IF req.narrative = "exhausted" THEN "generation unavailable"
    ELSE "other"

FailedReport(req) ==
    /\ req.kind = "report" /\ req.pc = "done" /\ req.http # 200
    /\ Cause(req) # "other"

(***************************************************************************)
(* C9: two failed report requests with different causes (an id no session  *)
(* was ever given, a session whose upload loaded no documents, the         *)
(* generation service unavailable) differ in status or in message.         *)
(***************************************************************************)
C9_CausesDistinct ==
    \A s, t \in Slots :
        (FailedReport(reqs[s]) /\ FailedReport(reqs[t])
            /\ Cause(reqs[s]) # Cause(reqs[t])) =>
                <<reqs[s].http, reqs[s].message>> # <<reqs[t].http, reqs[t].message>>

\* a request for a registered id is not turned away as an unknown session
Accepted(req) ==
    /\ req.lookup = "registered"
    /\ req.kind = "info" => (req.http = 200 /\ req.status = "success" /\ req.ready)
    /\ req.kind \in {"summary", "ask", "mcqs"} =>
          ~(req.status = "error" /\ req.message = InvalidSession(req).message)
    /\ req.kind = "report" => (req.http # 404 /\ req.pc = "summaries")

(***************************************************************************)
(* C10: when an upload has answered success, its id is in session_dbs with *)
(* the chunks the answer counts, at least one; every session-info,         *)
(* summary, quiz or report request for that id that arrives from then on   *)
(* is accepted, session-info with success and vector_store_ready true.     *)
(***************************************************************************)
C10_UploadRegisters ==
    /\ [](\A s \in Slots :
            (reqs[s].kind = "upload" /\ reqs[s].pc = "done" /\ reqs[s].http = 200) =>
                /\ reqs[s].files_processed > 0
                /\ reqs[s].chunks # <<>>
                /\ reqs[s].sid \in DOMAIN session_dbs
                /\ session_dbs[reqs[s].sid] = reqs[s].chunks)
    /\ [][\A s, t \in Slots :
            (/\ reqs[s].kind = "upload" /\ reqs[s].pc = "done" /\ reqs[s].http = 200
             /\ reqs[t].pc = "idle" /\ reqs'[t].pc # "idle"
             /\ reqs'[t].kind # "upload"
             /\ reqs'[t].sid = reqs[s].sid) => Accepted(reqs'[t])
       ]_vars

\* after a successful upload, a session-info and a report for its id
C10_Witness ==
    \E s, t, u \in Slots :
        /\ reqs[s].kind = "upload" /\ reqs[s].pc = "done" /\ reqs[s].http = 200
        /\ s < t /\ s < u
        /\ reqs[t].kind = "info" /\ reqs[t].sid = reqs[s].sid /\ reqs[t].ready
        /\ reqs[u].kind = "report" /\ reqs[u].sid = reqs[s].sid
        /\ reqs[u].pc \notin {"idle", "summaries"} /\ reqs[u].http # 404

(***************************************************************************)
(* SpecAnalyzer: extract_api_endpoints and analyze_tech_stack over one     *)
(* tree; either may be run again.                                          *)
(***************************************************************************)
SourcePaths == { <<"app.py">>, <<"index.js">>, <<"pkg", "views.py">> }
PyPaths == { q \in SourcePaths : EndsWith(q[Len(q)], ".py") }

Decls == { Decl(form, m, path) : form \in DeclForms, m \in HttpMethods, path \in RoutePaths }

\* the declarations of a tree, each with the file that holds it
Placements(present) ==
    UNION { [1..n -> (present \cap PyPaths) \X Decls] : n \in 0..MaxDecls }

DeclsIn(placed, path) ==
    LET mine == SelectSeq(placed, LAMBDA pd : pd[1] = path)
    IN  [i \in 1..Len(mine) |-> mine[i][2]]

ManifestNames == { "requirements.txt", "Pipfile", "pyproject.toml", "package.json" }
ManifestChoices ==
    { {} } \cup { { Manifest(n, names) } : n \in ManifestNames,
                                           names \in SUBSET { "flask", "react" } }

AnalyzerTrees ==
    { { SrcFile(q, DeclsIn(placed, q)) : q \in present } \cup manifest :
        present \in SUBSET SourcePaths,
        placed \in UNION { Placements(pr) : pr \in SUBSET SourcePaths },
        manifest \in ManifestChoices }

AnalyzerInit ==
    /\ anaTree \in AnalyzerTrees
    /\ endpoints = NoEndpoints
    /\ tech_stack = NoTechStack
    /\ StoryIdle
    /\ SplitIdle
    /\ DetectIdle
    /\ NoiseIdle
    /\ RetryIdle
    /\ QuizIdle
    /\ SumIdle
    /\ ServerIdle

ExtractEndpoints ==
    /\ endpoints' = [done |-> TRUE, list |-> extract_api_endpoints(anaTree)]
    /\ UNCHANGED <<anaTree, tech_stack>>
    /\ UNCHANGED <<storyVars, splitVars, detectVars>>
    /\ UNCHANGED <<noiseVars, retryVars, quizVars, sumVars, serverVars>>

\* analyze_tech_stack, lines 183-227
AnalyzeTechStack ==
    /\ \E languages \in Listings(Languages(anaTree)),
          frameworks \in Listings(Frameworks(anaTree)) :
            tech_stack' = [done |-> TRUE, languages |-> languages,
                           frameworks |-> frameworks]
    /\ UNCHANGED <<anaTree, endpoints>>
    /\ UNCHANGED <<storyVars, splitVars, detectVars>>
    /\ UNCHANGED <<noiseVars, retryVars, quizVars, sumVars, serverVars>>

AnalyzerNext == ExtractEndpoints \/ AnalyzeTechStack

SpecAnalyzer == AnalyzerInit /\ [][AnalyzerNext]_vars

\* the entry a declaration of a file should give
Declared(d, path) == [method |-> d.method, endpoint |-> d.path, file |-> path]

Count(q, x) == Cardinality({ i \in 1..Len(q) : q[i] = x })

(***************************************************************************)
(* C11: after extract_api_endpoints, every route declaration of a .py file *)
(* has its entry {declared method, declared path, that file} in the list,  *)
(* as many times as the file declares it, and the list holds nothing else. *)
(***************************************************************************)
C11_EndpointsFaithful ==
    endpoints.done =>
        /\ \A f \in anaTree : \A i \in 1..Len(f.decls) :
              Count(endpoints.list, Declared(f.decls[i], f.path))
                  = Cardinality({ j \in 1..Len(f.decls) :
                        Declared(f.decls[j], f.path) = Declared(f.decls[i], f.path) })
        /\ \A i \in 1..Len(endpoints.list) :
              \E f \in anaTree : \E j \in 1..Len(f.decls) :
                  endpoints.list[i] = Declared(f.decls[j], f.path)

\* the tree of the determinism scenario: app.py, index.js and one manifest
\* that names flask and react
ScenarioTree ==
    /\ \E f \in anaTree : f.path = <<"app.py">>
    /\ \E f \in anaTree : f.path = <<"index.js">>
    /\ \A f \in anaTree : f.path \in { <<"app.py">>, <<"index.js">> }
                              \cup { <<n>> : n \in ManifestNames }
    /\ \E f \in anaTree : f.path[1] \in ManifestNames
                              /\ f.names = { "flask", "react" }

(***************************************************************************)
(* C12: on a tree of app.py, index.js and one manifest naming flask and    *)
(* react, analyze_tech_stack gives the languages {Python, JavaScript} and  *)
(* frameworks that include Flask and React, whichever manifest it is.      *)
(***************************************************************************)
C12_TechStack ==
    (tech_stack.done /\ ScenarioTree) =>
        /\ Range(tech_stack.languages) = { "Python", "JavaScript" }
        /\ { "Flask", "React" } \subseteq Range(tech_stack.frameworks)

(***************************************************************************)
(* SpecAssembler: generate_enhanced_pdf, section by section.               *)
(***************************************************************************)
Assemblies ==
    [logo : { "none", "missing", "image", "broken" },
     diagram : { "ok", "raises" },
     languages : BOOLEAN, frameworks : BOOLEAN, file_types : BOOLEAN,
     nEndpoints : { 0, 1, maxPdfEndpoints + 1 },
     nMcqs : { 0, 1, maxPdfMcqs + 1 }]

AssemblerInit ==
    /\ asmIn \in Assemblies
    /\ story = <<>>
    /\ asmPc = "title"
    /\ AnalysisIdle
    /\ SplitIdle
    /\ DetectIdle
    /\ NoiseIdle
    /\ RetryIdle
    /\ QuizIdle
    /\ SumIdle
    /\ ServerIdle

AsmOthers ==
    UNCHANGED <<noiseVars, retryVars, quizVars, sumVars, serverVars,
                analysisVars, splitVars, detectVars>>

StoryAppend(pc, next, flowables) ==
    /\ asmPc = pc
    /\ story' = story \o flowables
    /\ asmPc' = next
    /\ UNCHANGED asmIn
    /\ AsmOthers

AddTitlePage == \E eager \in BOOLEAN : StoryAppend("title", "overview", TitlePage(asmIn, eager))
AddOverview == StoryAppend("overview", "technology", Overview(asmIn))
AddTechnologyStack == StoryAppend("technology", "architecture", TechnologyStack(asmIn))
AddArchitecture ==
    LET a == Architecture(asmIn)
    IN  StoryAppend("architecture", IF a.raised THEN "raised" ELSE "files", a.flow)
AddFileStructure == StoryAppend("files", "endpoints", FileStructure(asmIn))
AddApiEndpoints == StoryAppend("endpoints", "quiz", ApiEndpoints(asmIn))
AddKnowledgeAssessment == StoryAppend("quiz", "build", KnowledgeAssessment(asmIn))

Build ==
    /\ asmPc = "build"
    /\ asmPc' = IF BuildRaises(story) THEN "raised" ELSE "built"
    /\ UNCHANGED <<asmIn, story>>
    /\ AsmOthers

AssemblerNext ==
    \/ AddTitlePage
    \/ AddOverview
    \/ AddTechnologyStack
    \/ AddArchitecture
    \/ AddFileStructure
    \/ AddApiEndpoints
    \/ AddKnowledgeAssessment
    \/ Build

SpecAssembler == AssemblerInit /\ [][AssemblerNext]_vars

Emitted(section, kind) ==
    \E i \in 1..Len(story) : story[i].section = section /\ story[i].kind = kind

FirstOf(section) ==
    CHOOSE i \in 1..Len(story) :
        /\ story[i].section = section
        /\ \A j \in 1..(i - 1) : story[j].section # section

(***************************************************************************)
(* C13: with no logo file (no path, or a path of no file) and a diagram    *)
(* generator that raises, assembly never raises; the built document holds  *)
(* neither logo nor diagram and holds the title page, the overview with    *)
(* its table, the technology stack, the architecture heading and the       *)
(* file-structure section, for every analysis and every quiz.              *)
(***************************************************************************)
C13_GracefulDegradation ==
    (asmIn.logo \in { "none", "missing" } /\ asmIn.diagram = "raises") =>
        /\ asmPc # "raised"
        /\ asmPc = "built" =>
              /\ ~Emitted("title", "logo")
              /\ ~Emitted("architecture", "diagram")
              /\ Emitted("title", "heading")
              /\ Emitted("overview", "heading")
              /\ Emitted("overview", "table")
              /\ Emitted("technology", "heading")
              /\ Emitted("architecture", "heading")
              /\ Emitted("files", "heading")

\* every optional block empty: no logo, no diagram, an empty analysis, no quiz
C13_Witness ==
    /\ asmPc = "built"
    /\ asmIn.logo = "missing" /\ asmIn.diagram = "raises"
    /\ ~asmIn.languages /\ ~asmIn.frameworks /\ ~asmIn.file_types
    /\ asmIn.nEndpoints = 0 /\ asmIn.nMcqs = 0
    /\ Len(story) > 0

(***************************************************************************)
(* C14: in the built document the architecture overview comes before the   *)
(* technology stack, and the sections emitted follow the order title page, *)
(* executive summary, architecture overview, technology stack, file-type   *)
(* breakdown, API endpoints, quiz.                                         *)
(***************************************************************************)
SpecOrder == << "title", "overview", "architecture", "technology", "files",
               "endpoints", "quiz" >>

C14_SectionOrder ==
    asmPc = "built" =>
        \A a, b \in 1..Len(SpecOrder) :
            (a < b /\ (\E i \in 1..Len(story) : story[i].section = SpecOrder[a])
                   /\ (\E i \in 1..Len(story) : story[i].section = SpecOrder[b])) =>
                FirstOf(SpecOrder[a]) < FirstOf(SpecOrder[b])

(***************************************************************************)
(* SpecSplit: chunkDocs on one file's text.                                *)
(***************************************************************************)
WordLengths == { 200, 500, chunk_size - 1, chunk_size + 800 }

Texts == UNION { [1..n -> WordLengths] : n \in 1..MaxWords }

SplitInit ==
    /\ splitText \in Texts
    /\ splitChunks = <<>>
    /\ splitPc = "text"
    /\ AnalysisIdle
    /\ StoryIdle
    /\ DetectIdle
    /\ NoiseIdle
    /\ RetryIdle
    /\ QuizIdle
    /\ SumIdle
    /\ ServerIdle

SplitDocuments ==
    /\ splitPc = "text"
    /\ splitChunks' = split_text(splitText)
    /\ splitPc' = "chunked"
    /\ UNCHANGED splitText
    /\ UNCHANGED <<noiseVars, retryVars, quizVars, sumVars, serverVars,
                   analysisVars, storyVars, detectVars>>

SplitNext == SplitDocuments

SpecSplit == SplitInit /\ [][SplitNext]_vars

(***************************************************************************)
(* C19: the chunks of a file start chunk_size - chunk_overlap = 800 apart, *)
(* every chunk but the last is chunk_size long, and the chunks put         *)
(* together with the overlap removed are the text: the first starts at 0   *)
(* and the last ends where the text ends.                                  *)
(***************************************************************************)
C19_ChunkWindows ==
    splitPc = "chunked" =>
        LET n == Len(splitChunks)
        IN  /\ n > 0
            /\ splitChunks[1].start = 0
            /\ splitChunks[n].start + splitChunks[n].len = TextLen(splitText)
            /\ \A i \in 1..(n - 1) :
                  /\ splitChunks[i + 1].start
                        = splitChunks[i].start + (chunk_size - chunk_overlap)
                  /\ splitChunks[i].len = chunk_size

(***************************************************************************)
(* SpecDeps: analyze_dependencies on a tree of manifests.                  *)
(***************************************************************************)
DepNames == { "flask", "requests" }

\* the version specifiers of a requirement line
Specifiers ==
    { <<"=", "=">>, <<">", "=">>, <<"<", "=">>, <<"!", "=">>, <<"~", "=">>,
      <<"<">>, <<">">> }

Requirement(name, spec) == <<name>> \o spec \o <<"1.0">>

ManifestLines ==
    { <<>>, <<" ">>, <<"#", "c">>, <<" ", "#", "c">>,
      <<"requests">>, <<" ", "requests", " ">>,
      <<"flask", " ", "=", "=", " ", "1.0">> }
    \cup { Requirement("flask", spec) : spec \in Specifiers }

\* what may be at the path of one manifest, with k lines of text
ManifestStates(name, k) ==
    IF k = 0
    THEN { {}, { DetFile(<<name>>, "error", <<>>, <<>>) },
           { DetFile(<<name>>, "ok", <<>>, <<>>) } }
    ELSE { { DetFile(<<name>>, "ok", lines, <<>>) } :
             lines \in [1..k -> ManifestLines] }

PackageJsonStates ==
    { {}, { DetFile(<<"package.json">>, "badjson", <<>>, <<>>) },
      { DetFile(<<"package.json">>, "ok", << <<"react">>, <<"jest">> >>, <<>>) } }

DepsInit ==
    /\ \E k1 \in 0..MaxLines :
       \E k2 \in 0..(MaxLines - k1) :
       \E k3 \in 0..(MaxLines - k1 - k2) :
       \E m1 \in ManifestStates("requirements.txt", k1),
          m2 \in ManifestStates("Pipfile", k2),
          m3 \in ManifestStates("pyproject.toml", k3),
          pj \in PackageJsonStates :
            detTree = m1 \cup m2 \cup m3 \cup pj
    /\ dependencies = NoDependencies
    /\ analysis = NoAnalysis
    /\ AnalysisIdle
    /\ StoryIdle
    /\ SplitIdle
    /\ NoiseIdle
    /\ RetryIdle
    /\ QuizIdle
    /\ SumIdle
    /\ ServerIdle

AnalyzeDependencies ==
    /\ dependencies' = [done |-> TRUE, map |-> analyze_dependencies(detTree)]
    /\ UNCHANGED <<detTree, analysis>>
    /\ UNCHANGED <<noiseVars, retryVars, quizVars, sumVars, serverVars,
                   analysisVars, storyVars, splitVars>>

DepsNext == AnalyzeDependencies

SpecDeps == DepsInit /\ [][DepsNext]_vars

(***************************************************************************)
(* C23: for each manifest analyze_dependencies reads, the list it returns  *)
(* holds, in line order, one bare package name for every line that is      *)
(* neither blank nor a comment: the line up to its version specifier       *)
(* (==, >=, <=, !=, ~=, <, >), without surrounding whitespace.             *)
(***************************************************************************)
StartsWith(l, prefix) ==
    Len(prefix) <= Len(l) /\ SubSeq(l, 1, Len(prefix)) = prefix

RECURSIVE BeforeSpecifier(_)
BeforeSpecifier(l) ==
    IF l = <<>> \/ \E spec \in Specifiers : StartsWith(l, spec) THEN <<>>
    ELSE <<Head(l)>> \o BeforeSpecifier(Tail(l))

RECURSIVE BareNames(_)
BareNames(lines) ==
    IF lines = <<>> THEN <<>>
    ELSE LET line == Strip(Head(lines))
         IN  (IF line # <<>> /\ Head(line) # "#"
              THEN << Strip(BeforeSpecifier(line)) >> ELSE <<>>)
                \o BareNames(Tail(lines))

C23_Dependencies ==
    dependencies.done =>
        \A f \in detTree :
            (f.read = "ok" /\ f.path \in { <<n>> : n \in requirements_files }) =>
                dependencies.map[f.path[1]] = BareNames(f.lines)

(***************************************************************************)
(* SpecDetect: analyze_project_structure on a tree some of whose files     *)
(* cannot be read or parsed.                                               *)
(***************************************************************************)
ReadStates(path) ==
    IF path = <<"package.json">> THEN {"ok", "error", "badjson"}
    ELSE {"ok", "error"}

\* what may be at a path: nothing, or the file in one of its read states
FileStates(path, lines, decls) ==
    { {} } \cup { { DetFile(path, read, lines, decls) } : read \in ReadStates(path) }

DetectInit ==
    /\ \E app \in FileStates(<<"app.py">>, <<>>, <<Decl("app", "GET", "/items")>>),
          views \in FileStates(<<"pkg", "views.py">>, <<>>,
                               <<Decl("router", "POST", "/items")>>),
          req \in FileStates(<<"requirements.txt">>, << <<"flask">> >>, <<>>),
          pip \in FileStates(<<"Pipfile">>, << <<"requests">> >>, <<>>),
          pj \in FileStates(<<"package.json">>, << <<"react">> >>, <<>>),
          env \in FileStates(<<".env">>, <<>>, <<>>),
          readme \in FileStates(<<"README.md">>, <<>>, <<>>) :
            detTree = app \cup views \cup req \cup pip \cup pj \cup env \cup readme
    /\ dependencies = NoDependencies
    /\ analysis = NoAnalysis
    /\ AnalysisIdle
    /\ StoryIdle
    /\ SplitIdle
    /\ NoiseIdle
    /\ RetryIdle
    /\ QuizIdle
    /\ SumIdle
    /\ ServerIdle

AnalyzeProjectStructure ==
    /\ analysis' = analyze_project_structure(detTree)
    /\ UNCHANGED <<detTree, dependencies>>
    /\ UNCHANGED <<noiseVars, retryVars, quizVars, sumVars, serverVars,
                   analysisVars, storyVars, splitVars>>

DetectNext == AnalyzeProjectStructure

SpecDetect == DetectInit /\ [][DetectNext]_vars

(***************************************************************************)
(* C27: analyze_project_structure always returns, with every one of its    *)
(* eleven fact sets; a file a detector cannot read or parse gives that     *)
(* detector nothing, while every other file it opens is taken in; an       *)
(* unreadable manifest has the empty list as its dependencies.             *)
(***************************************************************************)
Readable(tree) == { f \in tree : f.read = "ok" }

C27_AnalysisComplete ==
    analysis.done =>
        /\ ~analysis.raised
        /\ DOMAIN analysis.facts = Detectors
        /\ \A k \in Detectors : \A f \in Opens(k, detTree) :
              f.path \in analysis.facts[k] <=>
                  (f.read = "ok" \/ (f.read = "badjson" /\ ~ParsesJson(k, f)))
        /\ analysis.api_endpoints = extract_api_endpoints(Readable(detTree))
        /\ \A f \in Top(detTree, requirements_files \cup {"package.json"}) :
              /\ f.path[1] \in DOMAIN analysis.dependencies
              /\ f.read # "ok" => analysis.dependencies[f.path[1]] = <<>>

\* the first .py file of the walk cannot be read, the second holds a route;
\* one manifest cannot be read, another can; package.json does not parse
C27_Witness ==
    /\ analysis.done
    /\ DetFile(<<"app.py">>, "error", <<>>, <<Decl("app", "GET", "/items")>>)
          \in detTree
    /\ Len(analysis.api_endpoints) = 1
    /\ \E f \in detTree : f.path = <<"requirements.txt">> /\ f.read = "error"
    /\ \E f \in detTree : f.path = <<"package.json">> /\ f.read = "badjson"
    /\ \E f \in detTree : f.path = <<"Pipfile">> /\ f.read = "ok"
    /\ analysis.dependencies["Pipfile"] # <<>>

====
